---------------------------- MODULE Spec2Model ----------------------------
(***************************************************************************)
(* Model of the mapper pipeline of WRFrontiers-Exporter:                   *)
(*   src/src/mapper/get_mapper.py  (main and its helpers)                  *)
(*   src/src/utils.py              (clear_dir, wait_for_process_by_name,   *)
(*                                  wait_for_process_ready_for_injection,  *)
(*                                  terminate_process_object,              *)
(*                                  terminate_process_by_name)             *)
(* The pipeline is single-threaded; the only other actors are the target   *)
(* process (which may exit at any time) and the injected module running    *)
(* inside it (which writes into the Dumper-7 output directory).            *)
(***************************************************************************)
EXTENDS Naturals, Integers, Sequences, FiniteSets, TLC

(***************************************************************************)
(* Bounds of the model.                                                    *)
(***************************************************************************)
MaxRuns == 2            \* calls of main() in one behaviour
MaxModuleWrites == 2    \* entries the injected module writes in one run

(***************************************************************************)
(* Program constants (seconds).                                            *)
(***************************************************************************)
WaitTimeout == 60       \* utils.py:431  wait_for_process_by_name(..., timeout=60)
PollInterval == 5       \* utils.py:361  time.sleep(5)
CheckInterval == 5      \* utils.py:437  check_interval = 5
InitializationTime == 10 \* get_mapper.py:192  initialization_time=10

(***************************************************************************)
(* The file system.  An entry of the output directory is a bundle          *)
(* directory (isDir) or a plain file.  A bundle may hold a Mappings        *)
(* directory, whose regular files are mfiles and whose subdirectories are  *)
(* msubdirs.  fresh is a history field: TRUE iff the entry was written     *)
(* after the current run of main() began.                                  *)
(***************************************************************************)
NoFile == "<nofile>"
Contents == {"c1", "c2"}
BundleNames == {"b1", "b2"}
PlainName == "log.txt"

MapperFile(n, c) == [fname |-> n, content |-> c]

BundleShapes ==
    { [hasMappings |-> FALSE, mfiles |-> {}, msubdirs |-> {}],
      [hasMappings |-> TRUE,  mfiles |-> {}, msubdirs |-> {}],
      [hasMappings |-> TRUE,  mfiles |-> {MapperFile("a.usmap", "c1"), MapperFile("b.usmap", "c2")},
       msubdirs |-> {}] }
    \cup { [hasMappings |-> TRUE, mfiles |-> {MapperFile("a.usmap", c)}, msubdirs |-> {}] : c \in Contents }

Bundle(n, s, fr) ==
    [name |-> n, isDir |-> TRUE, hasMappings |-> s.hasMappings, mfiles |-> s.mfiles,
     msubdirs |-> s.msubdirs, fresh |-> fr]

PlainFile(fr) ==
    [name |-> PlainName, isDir |-> FALSE, hasMappings |-> FALSE, mfiles |-> {},
     msubdirs |-> {}, fresh |-> fr]

\* what the injected module may write: a bundle directory or a plain file
Writable == { Bundle(n, s, TRUE) : n \in BundleNames, s \in BundleShapes } \cup { PlainFile(TRUE) }

\* output directories left behind by earlier use, before the first run
StaleEntries ==
    { Bundle("b1", [hasMappings |-> TRUE, mfiles |-> {MapperFile("a.usmap", "c1")}, msubdirs |-> {}], FALSE),
      Bundle("b2", [hasMappings |-> FALSE, mfiles |-> {}, msubdirs |-> {}], FALSE),
      PlainFile(FALSE) }

\* writing an entry replaces an entry of the same name
WriteEntry(d, e) == { x \in d : x.name # e.name } \cup {e}

\* every entry becomes "not of this run" when a new run begins (history only)
Age(d) == { [e EXCEPT !.fresh = FALSE] : e \in d }

SubDirs(d) == { e \in d : e.isDir }

\* os.listdir(dir/bundle/Mappings): the regular files and the subdirectories
MappingsListing(b) ==
    { [fname |-> m.fname, isFile |-> TRUE] : m \in b.mfiles }
    \cup { [fname |-> n, isFile |-> FALSE] : n \in b.msubdirs }

(***************************************************************************)
(* utils.clear_dir: every item of the directory is removed, directories    *)
(* with rmtree and everything else with os.remove; the directory stays.    *)
(***************************************************************************)
\* mutant: only the files are removed, subdirectories are kept
clear_dir_files_only(d) == { e \in d : e.isDir }

clear_dir(d) == { e \in d : FALSE }

(***************************************************************************)
(* get_mapper.get_mapper_from_sdk.  The result is either a path            *)
(* (kind = "path": dir/bundle/Mappings/file) or the exception raised.      *)
(***************************************************************************)
NoName == "<none>"
LocPath(b, f)  == [kind |-> "path", count |-> 1, bundle |-> b, file |-> f]
LocError(k, n) == [kind |-> k, count |-> n, bundle |-> NoName, file |-> NoName]
NoLoc == LocError("none", 0)

StructuralErrors ==
    {"InvalidSdkDirs", "MappingsNotFound", "NoMapperFiles", "MultipleMapperFiles", "MapperFileNotFound"}

\* os.path.exists(dir/bundle/Mappings/file)
PathExists(d, b, f) ==
    \E e \in d : e.isDir /\ e.name = b /\ e.hasMappings /\ \E m \in e.mfiles : m.fname = f

\* content of dir/bundle/Mappings/file (the file exists)
ContentAt(d, b, f) ==
    LET e == CHOOSE x \in d : x.isDir /\ x.name = b
        m == CHOOSE x \in e.mfiles : x.fname = f
    IN  m.content

\* mutant: every entry of Mappings is taken for a mapper file
get_mapper_from_sdk_any_entry(d) ==
    LET sdk_dirs == { e \in d : e.isDir }
    IN  IF Cardinality(sdk_dirs) # 1
        THEN LocError("InvalidSdkDirs", Cardinality(sdk_dirs))
        ELSE LET b == CHOOSE e \in sdk_dirs : TRUE
                 mapper_files == MappingsListing(b)
             IN  IF ~b.hasMappings
                 THEN LocError("MappingsNotFound", 1)
                 ELSE IF Cardinality(mapper_files) = 0
                 THEN LocError("NoMapperFiles", 1)
                 ELSE IF Cardinality(mapper_files) > 1
                 THEN LocError("MultipleMapperFiles", 1)
                 ELSE LET f == CHOOSE m \in mapper_files : TRUE
                      IN  LocPath(b.name, f.fname)

\* mutant: every entry of the output directory is taken for a bundle directory
get_mapper_from_sdk_any_dir(d) ==
    LET sdk_dirs == d
    IN  IF Cardinality(sdk_dirs) # 1
        THEN LocError("InvalidSdkDirs", Cardinality(sdk_dirs))
        ELSE LET b == CHOOSE e \in sdk_dirs : TRUE
                 mapper_files == { f \in MappingsListing(b) : f.isFile }
             IN  IF ~b.hasMappings
                 THEN LocError("MappingsNotFound", 1)
                 ELSE IF Cardinality(mapper_files) = 0
                 THEN LocError("NoMapperFiles", 1)
                 ELSE IF Cardinality(mapper_files) > 1
                 THEN LocError("MultipleMapperFiles", 1)
                 ELSE LET f == CHOOSE m \in mapper_files : TRUE
                      IN  LocPath(b.name, f.fname)

\* mutant: with several directories the first one is taken instead of raising
get_mapper_from_sdk_first(d) ==
    LET sdk_dirs == { e \in d : e.isDir }
    IN  IF Cardinality(sdk_dirs) = 0
        THEN LocError("InvalidSdkDirs", 0)
        ELSE LET b == CHOOSE e \in sdk_dirs : TRUE
                 mapper_files == { f \in MappingsListing(b) : f.isFile }
             IN  IF ~b.hasMappings
                 THEN LocError("MappingsNotFound", 1)
                 ELSE IF Cardinality(mapper_files) = 0
                 THEN LocError("NoMapperFiles", 1)
                 ELSE IF Cardinality(mapper_files) > 1
                 THEN LocError("MultipleMapperFiles", 1)
                 ELSE LET f == CHOOSE m \in mapper_files : TRUE
                      IN  LocPath(b.name, f.fname)

get_mapper_from_sdk(d) ==
    LET sdk_dirs == { e \in d : e.isDir }
    IN  IF Cardinality(sdk_dirs) # 1
        THEN LocError("InvalidSdkDirs", Cardinality(sdk_dirs))
        ELSE LET b == CHOOSE e \in sdk_dirs : TRUE
                 mapper_files == { f \in MappingsListing(b) : f.isFile }
             IN  IF ~b.hasMappings
                 THEN LocError("MappingsNotFound", 1)
                 ELSE IF Cardinality(mapper_files) = 0
                 THEN LocError("NoMapperFiles", 1)
                 ELSE IF Cardinality(mapper_files) > 1
                 THEN LocError("MultipleMapperFiles", 1)
                 ELSE LET f == CHOOSE m \in mapper_files : TRUE
                      IN  IF ~PathExists(d, b.name, f.fname)
                          THEN LocError("MapperFileNotFound", 1)
                          ELSE LocPath(b.name, f.fname)

(***************************************************************************)
(* Text.  A string is a sequence of one-character strings, so that the     *)
(* string operations of utils.wait_for_process_by_name (lower, replace,    *)
(* slicing, `in`, split, isdigit, int) are computed character by           *)
(* character.                                                              *)
(***************************************************************************)
UpperCase ==
    << "A", "B", "C", "D", "E", "F", "G", "H", "I", "J", "K", "L", "M",
       "N", "O", "P", "Q", "R", "S", "T", "U", "V", "W", "X", "Y", "Z" >>

LowerCase ==
    << "a", "b", "c", "d", "e", "f", "g", "h", "i", "j", "k", "l", "m",
       "n", "o", "p", "q", "r", "s", "t", "u", "v", "w", "x", "y", "z" >>

Digits == << "0", "1", "2", "3", "4", "5", "6", "7", "8", "9" >>

\* str.lower()
lower_char(c) ==
    IF \E i \in DOMAIN UpperCase : UpperCase[i] = c
    THEN LowerCase[CHOOSE i \in DOMAIN UpperCase : UpperCase[i] = c]
    ELSE c

lower(s) == [i \in 1..Len(s) |-> lower_char(s[i])]

\* str.isdigit()
isdigit(s) == Len(s) > 0 /\ \A i \in 1..Len(s) : \E k \in DOMAIN Digits : Digits[k] = s[i]

\* int() of a string of digits
RECURSIVE int(_)
int(s) ==
    IF Len(s) = 0
    THEN 0
    ELSE 10 * int(SubSeq(s, 1, Len(s) - 1)) + (CHOOSE k \in DOMAIN Digits : Digits[k] = s[Len(s)]) - 1

\* sub in s
Contains(sub, s) ==
    \/ Len(sub) = 0
    \/ \E i \in 1..(Len(s) - Len(sub) + 1) : s[i] = sub[1] /\ SubSeq(s, i, i + Len(sub) - 1) = sub

\* s.replace(old, ''): every occurrence of old is removed, from the left
RECURSIVE replace(_, _)
replace(s, old) ==
    IF Len(s) < Len(old) \/ Len(s) = 0
    THEN s
    ELSE IF SubSeq(s, 1, Len(old)) = old
    THEN replace(SubSeq(s, Len(old) + 1, Len(s)), old)
    ELSE << s[1] >> \o replace(Tail(s), old)

\* s[:n]
Prefix(s, n) == SubSeq(s, 1, IF Len(s) < n THEN Len(s) ELSE n)

\* s.split(): the maximal runs of characters that are not blanks, in order
split(s) ==
    LET starts == { i \in 1..Len(s) : s[i] # " " /\ (i = 1 \/ s[i - 1] = " ") }
        nth(k) == CHOOSE i \in starts : Cardinality({ j \in starts : j < i }) = k - 1
        stop(i) == CHOOSE j \in i..Len(s) :
                       /\ \A k \in i..j : s[k] # " "
                       /\ (j = Len(s) \/ s[j + 1] = " ")
    IN  [k \in 1..Cardinality(starts) |-> SubSeq(s, nth(k), stop(nth(k)))]

DotExe == << ".", "e", "x", "e" >>
ImageNameText == << "i", "m", "a", "g", "e", " ", "n", "a", "m", "e" >>
EqualsText == << "=", "=", "=", "=", "=" >>

\* utils.py:313, the length of the truncated name
ShortNameLength == 20

\* utils.py:312-313
process_base_name(process_name) == lower(replace(process_name, DotExe))
process_short_name(process_name) == lower(Prefix(process_base_name(process_name), ShortNameLength))

\* mutant: the truncated name is not compared
name_in_line_without_short(process_name, line_lower) ==
    \/ Contains(lower(process_name), line_lower)
    \/ Contains(process_base_name(process_name), line_lower)

\* utils.py:323-325: the full name, the base name or the truncated name is in the line
name_in_line(process_name, line_lower) ==
    \/ Contains(lower(process_name), line_lower)
    \/ Contains(process_base_name(process_name), line_lower)
    \/ Contains(process_short_name(process_name), line_lower)

NoPid == 0 - 1

\* utils.py:315-333: the loop over the lines of the tasklist output, from line i;
\* the PID of the first line that matches, NoPid when the loop ends without a match
RECURSIVE scan_lines(_, _, _)
scan_lines(process_name, lines, i) ==
    IF i > Len(lines)
    THEN NoPid
    ELSE LET line == lines[i]
             line_lower == lower(line)
             parts == split(line)
         IN  IF Contains(ImageNameText, line_lower) \/ Contains(EqualsText, line_lower)
             THEN scan_lines(process_name, lines, i + 1)
             ELSE IF /\ name_in_line(process_name, line_lower)
                     /\ Len(parts) >= 2
                     /\ isdigit(parts[2])
             THEN int(parts[2])
             ELSE scan_lines(process_name, lines, i + 1)

\* get_mapper.py:215-221, the name main() waits for
GameProcessName ==
    << "W", "R", "F", "r", "o", "n", "t", "i", "e", "r", "s", "-", "W", "i", "n", "6",
       "4", "-", "S", "h", "i", "p", "p", "i", "n", "g", ".", "e", "x", "e" >>

\* the example of the docstring, utils.py:284
NotepadName ==
    << "N", "o", "t", "e", "p", "a", "d", ".", "e", "x", "e" >>

\* rows of the process table as tasklist prints them: the image name cut to 25 columns, the PID, the rest
GameRowText ==
    << "W", "R", "F", "r", "o", "n", "t", "i", "e", "r", "s", "-", "W", "i", "n", "6",
       "4", "-", "S", "h", "i", "p", "p", "i", "n", " ", " ", " ", " ", " ", "4", "2",
       "4", "2", " ", "C", "o", "n", "s", "o", "l", "e", " ", "1", " ", "1", "0", ",",
       "0", "0", "0", " ", "K" >>

GameRowLowerText ==
    << "w", "r", "f", "r", "o", "n", "t", "i", "e", "r", "s", "-", "w", "i", "n", "6",
       "4", "-", "s", "h", "i", "p", "p", "i", "n", " ", " ", " ", " ", " ", "4", "2",
       "4", "3", " ", "C", "o", "n", "s", "o", "l", "e", " ", "1", " ", "1", "0", ",",
       "0", "0", "0", " ", "K" >>

NotepadRowText ==
    << "n", "o", "t", "e", "p", "a", "d", ".", "e", "x", "e", " ", " ", " ", " ", " ",
       " ", " ", " ", " ", " ", " ", " ", " ", " ", " ", " ", " ", " ", " ", " ", " ",
       "7", "7", " ", "C", "o", "n", "s", "o", "l", "e", " ", "1", " ", "1", "0", ",",
       "0", "0", "0", " ", "K" >>

NotepadRowUpperText ==
    << "N", "O", "T", "E", "P", "A", "D", ".", "E", "X", "E", " ", " ", " ", " ", " ",
       " ", " ", " ", " ", " ", " ", " ", " ", " ", " ", " ", " ", " ", " ", " ", " ",
       "7", "8", " ", "C", "o", "n", "s", "o", "l", "e", " ", "1", " ", "1", "0", ",",
       "0", "0", "0", " ", "K" >>

ExplorerRowText ==
    << "e", "x", "p", "l", "o", "r", "e", "r", ".", "e", "x", "e", " ", " ", " ", " ",
       " ", " ", " ", " ", " ", " ", " ", " ", " ", " ", " ", " ", " ", " ", " ", "5",
       "0", "0", " ", "C", "o", "n", "s", "o", "l", "e", " ", "1", " ", "1", "0", ",",
       "0", "0", "0", " ", "K" >>

LauncherRowText ==
    << "W", "R", "F", "r", "o", "n", "t", "i", "e", "r", "s", "-", "L", "a", "u", "n",
       "c", "h", "e", "r", ".", "e", "x", "e", " ", " ", " ", " ", " ", " ", " ", "6",
       "0", "0", " ", "C", "o", "n", "s", "o", "l", "e", " ", "1", " ", "1", "0", ",",
       "0", "0", "0", " ", "K" >>

\* lines of the output that are not rows
HeaderText ==
    << "I", "m", "a", "g", "e", " ", "N", "a", "m", "e", " ", "P", "I", "D", " ", "S",
       "e", "s", "s", "i", "o", "n", " ", "N", "a", "m", "e", " ", "S", "e", "s", "s",
       "i", "o", "n", "#", " ", "M", "e", "m", " ", "U", "s", "a", "g", "e" >>

SeparatorText ==
    << "=", "=", "=", "=", "=", "=", "=", "=", "=", "=", " ", "=", "=", "=", "=", "=",
       "=", "=", "=", " ", "=", "=", "=", "=", "=", "=", "=", " ", "=", "=", "=", "=",
       "=", "=", "=", "=" >>

InfoText ==
    << "I", "N", "F", "O", ":", " ", "N", "o", " ", "t", "a", "s", "k", "s", " ", "a",
       "r", "e", " ", "r", "u", "n", "n", "i", "n", "g", " ", "w", "h", "i", "c", "h",
       " ", "m", "a", "t", "c", "h", " ", "t", "h", "e", " ", "s", "p", "e", "c", "i",
       "f", "i", "e", "d", " ", "c", "r", "i", "t", "e", "r", "i", "a", "." >>

\* the PID the game process gets
GamePid == 4242

\* what tasklist /FI "IMAGENAME eq ..." prints while the game runs
GameListing == << HeaderText, SeparatorText, GameRowText >>

(***************************************************************************)
(* State.                                                                  *)
(***************************************************************************)
VARIABLES
    pc,                 \* position of main(); "idle" between calls
    run,                \* number of calls of main() so far
    force,              \* options.force_get_mapper of the current call
    exeExists,          \* the shipping executable exists under steam_game_download_dir
    dllExists,          \* mapper/Dumper-7.dll exists
    outDirExists,       \* options.dumper7_output_dir exists
    outDir,             \* entries of options.dumper7_output_dir
    dstFile,            \* content of options.output_mapper_file, or NoFile
    proc,               \* the launched game process: "none", "running", "exited"
    injected,           \* the module is actually loaded in the game process
    elapsed,            \* time.time() - start_time in wait_for_process_by_name
    settled,            \* the loop variable i of the settle loop
    exc,                \* the exception caught at get_mapper.py:251 ("none" if none)
    has_terminated,     \* local of main()
    mapping_file_path,  \* local of main(); NoLoc models None
    termResult,         \* what terminate_process_object returned
    result,             \* outcome of the call: "none", "ok" (returns the path) or the error raised
    trace,              \* history: the steps the current call has performed, in order
    loc,                \* history: the last call of get_mapper_from_sdk in this run
    startDir,           \* history: outDir when the current call began (kept until the game is launched)
    startDst,           \* history: dstFile when the current call began
    staleArtifact,      \* history: outDir held a locatable artifact when the current call began
    hits,               \* history: calls so far that returned at the cache check
    moduleWrites,       \* history: number of entries the injected module wrote in this run
    bundlesWritten,     \* history: names of the bundle directories it wrote in this run
    process_name,       \* argument of wait_for_process_by_name and of the settle wait
    timeout,            \* argument of wait_for_process_by_name
    initialization_time,\* argument of wait_for_process_ready_for_injection
    stdout,             \* lines of the process table that a scan of the table is given
    pid,                \* what wait_for_process_by_name returned, NoPid before it has
    lastPoll,           \* history: outcome of the last poll: "listed", "not_listed", "failed"
    sleeps,             \* history: number of time.sleep calls of the settle loop
    checks,             \* history: outcomes of the liveness checks of the settle loop
    termCalls,          \* history: what terminate_process_object did to the handle
    graceSlept,         \* history: seconds slept in terminate_game_process before terminating
    copyCall,           \* a call of copy_mapper_file_to_output: the files it is given and what it returned
    clearCall,          \* a call of clear_dir: the directory it is given and how far the call is
    depot,              \* DepotDownloader: manifest.txt and the calls of run so far
    release,            \* DependencyManager: version.txt and the calls of download_github_release_latest so far
    runMain,            \* a call of run.main: its arguments, its position, the stages it ran, what it returned
    locateCall          \* a call of get_mapper_from_sdk on a directory that changes while it runs

vars == << pc, run, force, exeExists, dllExists, outDirExists, outDir, dstFile, proc, injected, elapsed, settled,
           exc, has_terminated, mapping_file_path, termResult, result, trace, loc,
           startDir, startDst, staleArtifact, hits, moduleWrites, bundlesWritten,
           process_name, timeout, initialization_time, stdout, pid, lastPoll, sleeps, checks,
           termCalls, graceSlept,
           copyCall, clearCall, depot, release, runMain, locateCall >>

fsVars   == << outDirExists, outDir, dstFile >>
procVars == << proc, injected >>
waitVars == << elapsed, settled >>
optVars  == << force, exeExists, dllExists >>
localVars == << exc, has_terminated, mapping_file_path, termResult >>
histVars == << loc, startDir, startDst, staleArtifact, hits, moduleWrites, bundlesWritten >>
argVars  == << process_name, timeout, initialization_time, stdout >>
pollVars == << pid, lastPoll >>
settleVars == << sleeps, checks >>
termVars == << termCalls, graceSlept >>
unitVars == << copyCall, clearCall, depot, release, runMain, locateCall >>
auxVars  == << argVars, pollVars, settleVars, termVars, unitVars >>

NoText == [exists |-> FALSE, text |-> << >>]

Stages == << "dependencies", "steam", "mapper", "export" >>

StageNames == { Stages[i] : i \in 1..Len(Stages) }

\* the value of the variable of a function that no behaviour of the
\* specification at hand calls; a specification that calls it starts the
\* variable at a record with the fields listed below
NotCalled == "not called"

\* copy_mapper_file_to_output has not been called:
\*   source_mapper_path  content of the file at the source path, or NoFile
\*   output_mapper_file  content of the file at the destination path, or NoFile
\*   parent_dir          number of directory levels that os.path.dirname(destination) names (0: it is '')
\*   missing             how many of these levels, counted from the innermost, do not exist
\*   copyFault           history: the system call that failed in the call, "none" if none
\*   copied              what the call returned: "unset", "path", "None" ("raised" if it raised)
\*   dstBefore           history: output_mapper_file when the function was called
CopyAtRest == copyCall = NotCalled

\* clear_dir has not been called on its own:
\*   dir_exists  the directory at dir_path exists
\*   dir_items   the items in it
\*   listing     what os.listdir(dir_path) returned
\*   reached     the items of the listing that the loop has been through
\*   cleared     position of the call: "call", "loop", "returned", "raised"
ClearAtRest == clearCall = NotCalled

\* DepotDownloader.run has not been called:
\*   manifest_txt  <wrf_dir>/manifest.txt: whether it exists, and its text
\*   runs          history: the calls of run so far, in order
DepotAtRest == depot = NotCalled

\* download_github_release_latest has not been called:
\*   version_txt  <output_path>/version.txt: whether it exists, and its text
\*   calls        history: the calls so far, in order
ReleaseAtRest == release = NotCalled

\* run.main has not been called:
\*   runPc         position: "call", "dependencies", "steam", "mapper", "export", "returned", or
\*                 "rejected" when validate_environment failed
\*   skip          the arguments skip_dependencies, skip_steam_update, skip_mapper, skip_batch_export
\*   mapperExists  a file exists at params.output_mapper_file
\*   stagesRun     history: the stages run so far, in order, and how each ended
\*   returned      what run.main returned: "none" (not yet), "True", "False"
RunAtRest == runMain = NotCalled

\* get_mapper_from_sdk has not been called on its own:
\*   dir    the output directory, as it is now
\*   seen   history: the output directory when the function was called
\*   at     position of the call: "list", "check", "returned", "raised"
\*   found  the path composed at line 124
\*   res    what the call returned or raised
LocateAtRest == locateCall = NotCalled

\* no function outside main() has been called
UnitsAtRest ==
    /\ CopyAtRest
    /\ ClearAtRest
    /\ DepotAtRest
    /\ ReleaseAtRest
    /\ RunAtRest
    /\ LocateAtRest

NoCall == [called |-> FALSE, dir |-> {}, res |-> NoLoc, procAlive |-> FALSE]

Init ==
    /\ pc = "idle"
    /\ run = 0
    /\ force = FALSE
    /\ exeExists = TRUE
    /\ dllExists = TRUE
    /\ outDirExists \in BOOLEAN
    /\ outDir \in SUBSET StaleEntries
    /\ (~outDirExists => outDir = {})
    /\ dstFile \in {NoFile, "c0"}
    /\ proc = "none"
    /\ injected = FALSE
    /\ elapsed = 0
    /\ settled = 0
    /\ exc = "none"
    /\ has_terminated = FALSE
    /\ mapping_file_path = NoLoc
    /\ termResult = FALSE
    /\ result = "none"
    /\ trace = << >>
    /\ loc = NoCall
    /\ startDir = outDir
    /\ startDst = dstFile
    /\ staleArtifact = FALSE
    /\ hits = 0
    /\ moduleWrites = 0
    /\ bundlesWritten = {}
    /\ process_name = GameProcessName
    /\ timeout = WaitTimeout
    /\ initialization_time = InitializationTime
    /\ stdout = << >>
    /\ pid = NoPid
    /\ lastPoll = "none"
    /\ sleeps = 0
    /\ checks = << >>
    /\ termCalls = << >>
    /\ graceSlept = 0
    /\ UnitsAtRest

\* the call raises `err` (or returns, err = "ok"): main() is left
Leave(err) == pc' = "done" /\ result' = err
Log(step) == trace' = Append(trace, step)

Did(step) == \E i \in 1..Len(trace) : trace[i] = step

\* mutant: the handler does not terminate the game before it looks for the artifact
RaiseSkipTerminate(e) == exc' = e /\ pc' = "l256"

\* an exception raised inside the try block of main() (get_mapper.py:243-248) is
\* caught at line 251; the handler starts with terminate_game_process (line 252)
Raise(e) == exc' = e /\ pc' = "term_grace"

(***************************************************************************)
(* main(), get_mapper.py:205-281, one action per step.                     *)
(***************************************************************************)

\* a caller calls main(options)
StartRun ==
    /\ pc \in {"idle", "done"}
    /\ run < MaxRuns
    /\ run' = run + 1
    /\ force' \in BOOLEAN
    /\ exeExists' \in BOOLEAN
    /\ dllExists' \in BOOLEAN
    /\ pc' = "cache"
    /\ result' = "none"
    /\ trace' = << >>
    /\ proc' = "none"
    /\ injected' = FALSE
    /\ elapsed' = 0
    /\ settled' = 0
    /\ exc' = "none"
    /\ has_terminated' = FALSE
    /\ mapping_file_path' = NoLoc
    /\ termResult' = FALSE
    /\ outDir' = Age(outDir)
    /\ startDir' = Age(outDir)
    /\ startDst' = dstFile
    /\ staleArtifact' = (get_mapper_from_sdk(outDir).kind = "path")
    /\ hits' = hits
    /\ loc' = NoCall
    /\ moduleWrites' = 0
    /\ bundlesWritten' = {}
    /\ pid' = NoPid
    /\ lastPoll' = "none"
    /\ sleeps' = 0
    /\ checks' = << >>
    /\ termCalls' = << >>
    /\ graceSlept' = 0
    /\ UNCHANGED << outDirExists, dstFile, argVars, unitVars >>

\* mutant: the existing destination file is not looked at
CacheCheckAlwaysRuns ==
    /\ pc = "cache"
    /\ pc' = "check_exe"
    /\ UNCHANGED << run, optVars, fsVars, procVars, waitVars, localVars, result, trace, histVars >>
    /\ UNCHANGED auxVars

\* lines 209-212
CacheCheck ==
    /\ pc = "cache"
    /\ IF dstFile # NoFile /\ ~force
       THEN Leave("ok") /\ hits' = hits + 1
       ELSE pc' = "check_exe" /\ result' = result /\ hits' = hits
    /\ UNCHANGED << run, optVars, fsVars, procVars, waitVars, localVars, trace,
                    loc, startDir, startDst, staleArtifact, moduleWrites, bundlesWritten >>
    /\ UNCHANGED auxVars

\* mutant: the output directory is cleared before the executable is checked
CheckExeAfterClear ==
    /\ pc = "check_exe"
    /\ outDir' = clear_dir(outDir)
    /\ IF ~exeExists
       THEN Leave("ExeNotFound")
       ELSE pc' = "clear" /\ result' = result
    /\ UNCHANGED << run, optVars, outDirExists, dstFile, procVars, waitVars, localVars, trace, histVars >>
    /\ UNCHANGED auxVars

\* lines 214-221
CheckExe ==
    /\ pc = "check_exe"
    /\ IF ~exeExists
       THEN Leave("ExeNotFound")
       ELSE pc' = "clear" /\ result' = result
    /\ UNCHANGED << run, optVars, fsVars, procVars, waitVars, localVars, trace, histVars >>
    /\ UNCHANGED auxVars

\* mutant: the output directory is not cleared
ClearOutputSkipped ==
    /\ pc = "clear"
    /\ Log("clear")
    /\ pc' = "admin"
    /\ UNCHANGED << run, optVars, fsVars, procVars, waitVars, localVars, result, histVars >>
    /\ UNCHANGED auxVars

\* lines 223-224; os.listdir raises when the directory does not exist
ClearOutput ==
    /\ pc = "clear"
    /\ IF ~outDirExists
       THEN Leave("OutputDirMissing") /\ UNCHANGED << outDir, trace >>
       ELSE /\ outDir' = clear_dir(outDir)
            /\ Log("clear")
            /\ pc' = "admin" /\ result' = result
    /\ UNCHANGED << run, optVars, outDirExists, dstFile, procVars, waitVars, localVars, histVars >>
    /\ UNCHANGED auxVars

\* mutant: without administrator privileges main() gives up
main_requires_admin(is_admin) ==
    /\ IF is_admin THEN pc' = "check_dll" /\ result' = result ELSE Leave("NotAdmin")
    /\ trace' = trace

\* lines 230-233: what main() does with the value of is_admin(): either branch
\* only logs a message
main_after_is_admin(is_admin) ==
    /\ pc' = "check_dll"
    /\ result' = result
    /\ trace' = trace

\* lines 229-233; utils.is_admin (lines 403-409) returns the answer of the shell,
\* or False when asking fails
AdminCheck ==
    /\ pc = "admin"
    /\ \E is_admin \in BOOLEAN : main_after_is_admin(is_admin)
    /\ UNCHANGED << run, optVars, fsVars, procVars, waitVars, localVars, histVars >>
    /\ UNCHANGED auxVars

\* mutant: the DLL path is returned without the existence check
GetDllPathUnchecked ==
    /\ pc = "check_dll"
    /\ pc' = "launch"
    /\ UNCHANGED << run, optVars, fsVars, procVars, waitVars, localVars, result, trace, histVars >>
    /\ UNCHANGED auxVars

\* mutant: with the DLL found, main() goes back to the administrator check
GetDllPathLoopsBack ==
    /\ pc = "check_dll"
    /\ IF ~dllExists
       THEN Leave("DllNotFound")
       ELSE pc' = "admin" /\ result' = result
    /\ UNCHANGED << run, optVars, fsVars, procVars, waitVars, localVars, trace, histVars >>
    /\ UNCHANGED auxVars

\* line 236 and get_dll_path, lines 15-20
GetDllPath ==
    /\ pc = "check_dll"
    /\ IF ~dllExists
       THEN Leave("DllNotFound")
       ELSE pc' = "launch" /\ result' = result
    /\ UNCHANGED << run, optVars, fsVars, procVars, waitVars, localVars, trace, histVars >>
    /\ UNCHANGED auxVars

\* launch_game_process, lines 144-148: subprocess.Popen
Launch ==
    /\ pc = "launch"
    /\ proc' = "running"
    /\ Log("launch")
    /\ pc' = "launch_check"
    /\ startDir' = {}
    /\ UNCHANGED << run, optVars, fsVars, injected, waitVars, localVars, result,
                    loc, startDst, staleArtifact, hits, moduleWrites, bundlesWritten >>
    /\ UNCHANGED auxVars

\* mutant: the launch check is made after the wait for the process has begun
LaunchCheckAfterWait ==
    /\ pc = "launch_check"
    /\ Log("wait")
    /\ IF proc # "running"
       THEN Leave("FailedToStart")
       ELSE pc' = "wait" /\ result' = result
    /\ UNCHANGED << run, optVars, fsVars, procVars, waitVars, localVars, histVars >>
    /\ UNCHANGED auxVars

\* launch_game_process, lines 150-155, then main lines 240-245 enter the try block
\* and perform_dll_injection calls wait_for_process_ready_for_injection
LaunchCheck ==
    /\ pc = "launch_check"
    /\ IF proc # "running"
       THEN Leave("FailedToStart") /\ UNCHANGED trace
       ELSE pc' = "wait" /\ result' = result /\ Log("wait")
    /\ UNCHANGED << run, optVars, fsVars, procVars, waitVars, localVars, histVars >>
    /\ UNCHANGED auxVars

(***************************************************************************)
(* utils.wait_for_process_by_name, lines 295-363: one poll of the process  *)
(* table per step, PollInterval apart; the row of the game is listed only  *)
(* while the game runs, and a poll may miss it (not yet visible, or        *)
(* tasklist failed, lines 346-348).                                        *)
(***************************************************************************)
\* subprocess.run(['tasklist', '/FI', 'IMAGENAME eq ...'], check=True), line 304:
\* it raises CalledProcessError, or prints the rows of the game, or prints that
\* no task matches
tasklist ==
    { [kind |-> "failed", lines |-> << >>], [kind |-> "not_listed", lines |-> << InfoText >>] }
    \cup IF proc = "running" THEN { [kind |-> "listed", lines |-> GameListing] } ELSE {}

\* mutant: a failed query of the process table ends the wait
WaitPollFailedQueryEnds ==
    /\ pc = "wait"
    /\ IF elapsed < timeout
       THEN \E out \in tasklist :
              /\ lastPoll' = out.kind
              /\ IF out.kind = "failed"
                 THEN Raise("ProcessNotFound") /\ UNCHANGED << waitVars, pid >>
                 ELSE LET found == scan_lines(process_name, out.lines, 1)
                      IN  IF found # NoPid
                          THEN /\ pid' = found
                               /\ pc' = "settle"
                               /\ settled' = 0
                               /\ UNCHANGED << elapsed, exc >>
                          ELSE /\ elapsed' = elapsed + PollInterval
                               /\ UNCHANGED << pc, settled, exc, pid >>
       ELSE /\ Raise("ProcessNotFound")
            /\ UNCHANGED << waitVars, pollVars >>
    /\ UNCHANGED << run, optVars, fsVars, procVars, has_terminated, mapping_file_path,
                    termResult, result, trace, histVars, argVars, unitVars, settleVars, termVars >>

WaitPoll ==
    /\ pc = "wait"
    /\ IF elapsed < timeout
       THEN \E out \in tasklist :
              /\ lastPoll' = out.kind
              /\ LET found == IF out.kind = "failed"
                              THEN NoPid           \* lines 346-348
                              ELSE scan_lines(process_name, out.lines, 1)
                 IN  IF found # NoPid
                     THEN /\ pid' = found          \* line 333
                          /\ pc' = "settle"
                          /\ settled' = 0
                          /\ UNCHANGED << elapsed, exc >>
                     ELSE /\ elapsed' = elapsed + PollInterval    \* line 361
                          /\ UNCHANGED << pc, settled, exc, pid >>
       ELSE /\ Raise("ProcessNotFound")            \* line 363
            /\ UNCHANGED << waitVars, pollVars >>
    /\ UNCHANGED << run, optVars, fsVars, procVars, has_terminated, mapping_file_path,
                    termResult, result, trace, histVars, argVars, unitVars, settleVars, termVars >>

(***************************************************************************)
(* utils.wait_for_process_ready_for_injection, lines 436-456: one          *)
(* iteration of the settle loop per step (sleep, then the liveness check). *)
(***************************************************************************)
\* mutant: a process that is gone at a check does not end the settle loop
SettleCheckIgnoresDeath ==
    /\ pc = "settle"
    /\ IF settled < initialization_time
       THEN /\ sleeps' = sleeps + 1
            /\ \/ /\ checks' = Append(checks, IF proc = "running" THEN "alive" ELSE "dead")
                  /\ settled' = settled + CheckInterval
                  /\ UNCHANGED << pc, exc >>
               \/ /\ checks' = Append(checks, "failed")
                  /\ Raise("LivenessCheckFailed")
                  /\ UNCHANGED settled
       ELSE /\ pc' = "inject"
            /\ UNCHANGED << settled, exc, settleVars >>
    /\ UNCHANGED << run, optVars, fsVars, procVars, elapsed, has_terminated, mapping_file_path,
                    termResult, result, trace, histVars, argVars, unitVars, pollVars, termVars >>

\* mutant: the injection is attempted although the process died while settling
SettleCheckInjectsAfterDeath ==
    /\ pc = "settle"
    /\ IF settled < initialization_time
       THEN /\ sleeps' = sleeps + 1
            /\ \/ /\ proc = "running"
                  /\ checks' = Append(checks, "alive")
                  /\ settled' = settled + CheckInterval
                  /\ UNCHANGED << pc, exc >>
               \/ /\ proc # "running"
                  /\ checks' = Append(checks, "dead")
                  /\ exc' = "DiedDuringInit"
                  /\ pc' = "inject"
                  /\ UNCHANGED settled
               \/ /\ checks' = Append(checks, "failed")
                  /\ Raise("LivenessCheckFailed")
                  /\ UNCHANGED settled
       ELSE /\ pc' = "inject"
            /\ UNCHANGED << settled, exc, settleVars >>
    /\ UNCHANGED << run, optVars, fsVars, procVars, elapsed, has_terminated, mapping_file_path,
                    termResult, result, trace, histVars, argVars, unitVars, pollVars, termVars >>

SettleCheck ==
    /\ pc = "settle"
    /\ IF settled < initialization_time             \* range(0, initialization_time, check_interval)
       THEN /\ sleeps' = sleeps + 1                 \* line 440
            /\ \/ /\ proc = "running"
                  /\ checks' = Append(checks, "alive")
                  /\ settled' = settled + CheckInterval
                  /\ UNCHANGED << pc, exc >>
               \/ /\ proc # "running"              \* line 447
                  /\ checks' = Append(checks, "dead")
                  /\ Raise("DiedDuringInit")
                  /\ UNCHANGED settled
               \/ /\ checks' = Append(checks, "failed")
                  /\ Raise("LivenessCheckFailed")  \* tasklist itself failed, line 449
                  /\ UNCHANGED settled
       ELSE /\ pc' = "inject"                       \* line 456
            /\ UNCHANGED << settled, exc, settleVars >>
    /\ UNCHANGED << run, optVars, fsVars, procVars, elapsed, has_terminated, mapping_file_path,
                    termResult, result, trace, histVars, argVars, unitVars, pollVars, termVars >>

(***************************************************************************)
(* inject_dll_into_process (mapper/simple_injector.py): it reports True    *)
(* or False, and independently of the report the module may or may not be  *)
(* loaded in the game.  perform_dll_injection lines 197-202, main lines    *)
(* 247-248.                                                                *)
(***************************************************************************)
inject_dll_into_process(reported, loaded) ==
    /\ reported \in BOOLEAN
    /\ loaded \in BOOLEAN
    /\ (loaded => proc = "running")
    /\ injected' = loaded

\* mutant: an injection reported as failed is tried once more
InjectRetries ==
    /\ pc = "inject"
    /\ Log("inject")
    /\ \E injection_success \in BOOLEAN, loaded \in BOOLEAN :
          /\ inject_dll_into_process(injection_success, loaded)
          /\ IF injection_success THEN pc' = "l261" /\ exc' = exc
             ELSE IF ~Did("inject") THEN pc' = pc /\ exc' = exc
             ELSE Raise("InjectionFailed")
    /\ UNCHANGED << run, optVars, fsVars, proc, waitVars, has_terminated, mapping_file_path, termResult, result, histVars >>
    /\ UNCHANGED auxVars

Inject ==
    /\ pc = "inject"
    /\ Log("inject")
    /\ \E injection_success \in BOOLEAN, loaded \in BOOLEAN :
          /\ inject_dll_into_process(injection_success, loaded)
          /\ IF injection_success
             THEN pc' = "l261" /\ exc' = exc
             ELSE Raise("InjectionFailed")
    /\ UNCHANGED << run, optVars, fsVars, proc, waitVars, has_terminated, mapping_file_path,
                    termResult, result, histVars >>
    /\ UNCHANGED auxVars

(***************************************************************************)
(* terminate_game_process, get_mapper.py:158-176.                          *)
(***************************************************************************)
\* get_mapper.py:166, the grace period before the game is terminated
TerminateGrace == 10

\* mutant: the game is terminated without the grace sleep
TermGraceWithoutSleep ==
    /\ pc = "term_grace"
    /\ Log("grace")
    /\ graceSlept' = graceSlept
    /\ pc' = "term_obj"
    /\ UNCHANGED << run, optVars, fsVars, procVars, waitVars, localVars, result, histVars,
                    argVars, unitVars, pollVars, settleVars, termCalls >>

\* lines 166-168: the grace sleep
TermGrace ==
    /\ pc = "term_grace"
    /\ Log("grace")
    /\ graceSlept' = graceSlept + TerminateGrace
    /\ pc' = "term_obj"
    /\ UNCHANGED << run, optVars, fsVars, procVars, waitVars, localVars, result, histVars,
                    argVars, unitVars, pollVars, settleVars, termCalls >>

\* where terminate_game_process returns to: line 253 in the handler, line 264 otherwise
AfterTerminate ==
    IF exc # "none" /\ ~has_terminated
    THEN pc' = "l256" /\ has_terminated' = TRUE
    ELSE pc' = "l264" /\ has_terminated' = has_terminated

\* mutant: a live process is force-killed at once
TermObjectKillsAtOnce ==
    /\ pc = "term_obj"
    /\ Log("terminate")
    /\ IF proc = "running"
       THEN /\ termCalls' = termCalls \o << "poll_live", "kill", "wait" >>
            /\ proc' = "exited"
            /\ termResult' = TRUE
            /\ AfterTerminate
       ELSE /\ termCalls' = Append(termCalls, "poll_exited")
            /\ termResult' = FALSE
            /\ pc' = "term_name"
            /\ UNCHANGED << proc, has_terminated >>
    /\ UNCHANGED << run, optVars, fsVars, injected, waitVars, exc, mapping_file_path,
                    result, histVars, argVars, unitVars, pollVars, settleVars, graceSlept >>

\* line 174 and utils.terminate_process_object, lines 468-470 and 480-483:
\* the poll of the handle and the request to terminate
TermObject ==
    /\ pc = "term_obj"
    /\ Log("terminate")
    /\ IF proc = "running"
       THEN \/ /\ termCalls' = termCalls \o << "poll_live", "terminate" >>     \* line 470
               /\ pc' = "term_wait"
               /\ UNCHANGED << termResult, has_terminated >>
            \/ /\ termCalls' = termCalls \o << "poll_live", "raised" >>        \* lines 480-482
               /\ termResult' = FALSE
               /\ pc' = "term_name"
               /\ UNCHANGED has_terminated
       ELSE /\ termCalls' = Append(termCalls, "poll_exited")    \* poll() is not None: line 483
            /\ termResult' = FALSE
            /\ pc' = "term_name"
            /\ UNCHANGED has_terminated
    /\ UNCHANGED << run, optVars, fsVars, procVars, waitVars, exc, mapping_file_path,
                    result, histVars, argVars, unitVars, pollVars, settleVars, graceSlept >>

\* utils.py:471-475: process.wait(timeout=10) returns when the process has exited
\* within the 10 seconds, and raises TimeoutExpired when it has not
TermWait ==
    /\ pc = "term_wait"
    /\ \/ /\ proc' = "exited"
          /\ termCalls' = Append(termCalls, "wait")
          /\ termResult' = TRUE
          /\ AfterTerminate
       \/ /\ proc = "running"
          /\ termCalls' = Append(termCalls, "timeout")
          /\ pc' = "term_kill"
          /\ UNCHANGED << proc, termResult, has_terminated >>
    /\ UNCHANGED << run, optVars, fsVars, injected, waitVars, exc, mapping_file_path,
                    result, trace, histVars, argVars, unitVars, pollVars, settleVars, graceSlept >>

\* mutant: the kill by name follows a forced kill through the handle
TermKillThenByName ==
    /\ pc = "term_kill"
    /\ proc' = "exited"
    /\ termCalls' = termCalls \o << "kill", "wait" >>
    /\ termResult' = TRUE
    /\ pc' = "term_name"
    /\ UNCHANGED << run, optVars, fsVars, injected, waitVars, exc, has_terminated, mapping_file_path,
                    result, trace, histVars, argVars, unitVars, pollVars, settleVars, graceSlept >>

\* utils.py:476-479: process.kill() and process.wait()
TermKill ==
    /\ pc = "term_kill"
    /\ proc' = "exited"
    /\ termCalls' = termCalls \o << "kill", "wait" >>
    /\ termResult' = TRUE
    /\ AfterTerminate
    /\ UNCHANGED << run, optVars, fsVars, injected, waitVars, exc, mapping_file_path,
                    result, trace, histVars, argVars, unitVars, pollVars, settleVars, graceSlept >>

\* mutant: a kill by name that ends no process raises out of main()
TermByNameRaises ==
    /\ pc = "term_name"
    /\ Log("kill_by_name")
    /\ \/ proc = "running" /\ proc' = "exited" /\ AfterTerminate /\ result' = result
       \/ proc' = proc /\ Leave("TerminationFailed") /\ has_terminated' = has_terminated
    /\ UNCHANGED << run, optVars, fsVars, injected, waitVars, exc, mapping_file_path, termResult, histVars >>
    /\ UNCHANGED auxVars

\* line 176 and utils.terminate_process_by_name, lines 374-387
TermByName ==
    /\ pc = "term_name"
    /\ Log("kill_by_name")
    /\ \/ proc = "running" /\ proc' = "exited"     \* taskkill returned 0
       \/ proc' = proc                              \* taskkill found or killed nothing
    /\ AfterTerminate
    /\ UNCHANGED << run, optVars, fsVars, injected, waitVars, exc, mapping_file_path,
                    termResult, result, histVars >>
    /\ UNCHANGED auxVars

(***************************************************************************)
(* The two calls of get_mapper_from_sdk and the copy, lines 255-281.       *)
(***************************************************************************)
\* the record of a call of get_mapper_from_sdk
Called(res) == [called |-> TRUE, dir |-> outDir, res |-> res, procAlive |-> (proc = "running")]

\* mutant: the handler looks for the artifact but re-raises the caught error anyway
LocateInHandlerReraise ==
    /\ pc = "l256"
    /\ Log("locate")
    /\ LET res == get_mapper_from_sdk(outDir)
       IN  /\ loc' = Called(res)
           /\ IF res.kind = "path" THEN Leave(exc) ELSE Leave(res.kind)
    /\ UNCHANGED << run, optVars, fsVars, procVars, waitVars, localVars,
                    startDir, startDst, staleArtifact, hits, moduleWrites, bundlesWritten >>
    /\ UNCHANGED auxVars

\* lines 255-259, in the handler.  get_mapper_from_sdk raises on every
\* failure and never returns None, so an exception of it leaves main() from
\* inside the handler; line 259 (raise e) needs a None result.
LocateInHandler ==
    /\ pc = "l256"
    /\ Log("locate")
    /\ LET res == get_mapper_from_sdk(outDir)
       IN  /\ loc' = Called(res)
           /\ IF res.kind = "path"
              THEN /\ mapping_file_path' = res
                   /\ IF mapping_file_path' = NoLoc
                      THEN Leave(exc)
                      ELSE pc' = "l261" /\ result' = result
              ELSE /\ mapping_file_path' = mapping_file_path
                   /\ Leave(res.kind)
    /\ UNCHANGED << run, optVars, fsVars, procVars, waitVars, exc, has_terminated, termResult,
                    startDir, startDst, staleArtifact, hits, moduleWrites, bundlesWritten >>
    /\ UNCHANGED auxVars

\* mutant: the game is not terminated before the artifact is looked for
CheckTerminatedSkipsTermination ==
    /\ pc = "l261"
    /\ pc' = "l264"
    /\ UNCHANGED << run, optVars, fsVars, procVars, waitVars, localVars, result, trace, histVars >>
    /\ UNCHANGED auxVars

\* lines 261-262
CheckTerminated ==
    /\ pc = "l261"
    /\ pc' = IF ~has_terminated THEN "term_grace" ELSE "l264"
    /\ UNCHANGED << run, optVars, fsVars, procVars, waitVars, localVars, result, trace, histVars >>
    /\ UNCHANGED auxVars

\* mutant: when the locator fails a guessed artifact is put at the destination
LocateFinalPublishesAGuess ==
    /\ pc = "l264"
    /\ IF mapping_file_path = NoLoc
       THEN /\ Log("locate")
            /\ LET res == get_mapper_from_sdk(outDir)
               IN  /\ loc' = Called(res)
                   /\ IF res.kind = "path"
                      THEN mapping_file_path' = res /\ pc' = "publish" /\ result' = result
                              /\ dstFile' = dstFile
                      ELSE mapping_file_path' = mapping_file_path /\ Leave(res.kind)
                              /\ dstFile' = IF dstFile = "c1" THEN "c2" ELSE "c1"
       ELSE /\ pc' = "publish"
            /\ UNCHANGED << mapping_file_path, result, trace, loc, dstFile >>
    /\ UNCHANGED << run, optVars, outDirExists, outDir, procVars, waitVars, exc, has_terminated, termResult,
                    startDir, startDst, staleArtifact, hits, moduleWrites, bundlesWritten >>
    /\ UNCHANGED auxVars

\* mutant: the artifact is looked for again although a path has been resolved
LocateFinalAlways ==
    /\ pc = "l264"
    /\ Log("locate")
    /\ LET res == get_mapper_from_sdk(outDir)
       IN  /\ loc' = Called(res)
           /\ IF res.kind = "path"
              THEN mapping_file_path' = res /\ pc' = "publish" /\ result' = result
              ELSE mapping_file_path' = mapping_file_path /\ Leave(res.kind)
    /\ UNCHANGED << run, optVars, fsVars, procVars, waitVars, exc, has_terminated, termResult,
                    startDir, startDst, staleArtifact, hits, moduleWrites, bundlesWritten >>
    /\ UNCHANGED auxVars

\* lines 264-270
LocateFinal ==
    /\ pc = "l264"
    /\ IF mapping_file_path = NoLoc
       THEN /\ Log("locate")
            /\ LET res == get_mapper_from_sdk(outDir)
               IN  /\ loc' = Called(res)
                   /\ IF res.kind = "path"
                      THEN mapping_file_path' = res /\ pc' = "publish" /\ result' = result
                      ELSE mapping_file_path' = mapping_file_path /\ Leave(res.kind)
       ELSE /\ pc' = "publish"
            /\ UNCHANGED << mapping_file_path, result, trace, loc >>
    /\ UNCHANGED << run, optVars, fsVars, procVars, waitVars, exc, has_terminated, termResult,
                    startDir, startDst, staleArtifact, hits, moduleWrites, bundlesWritten >>
    /\ UNCHANGED auxVars

\* mutant: the destination path is returned without the copy
PublishWithoutCopy ==
    /\ pc = "publish"
    /\ Log("copy")
    /\ dstFile' = dstFile
    /\ Leave("ok")
    /\ UNCHANGED << run, optVars, outDirExists, outDir, procVars, waitVars, localVars, histVars >>
    /\ UNCHANGED auxVars

\* lines 272-281: os.makedirs and shutil.copy2, which raises when the source is gone
Publish ==
    /\ pc = "publish"
    /\ Log("copy")
    /\ IF PathExists(outDir, mapping_file_path.bundle, mapping_file_path.file)
       THEN /\ dstFile' = ContentAt(outDir, mapping_file_path.bundle, mapping_file_path.file)
            /\ Leave("ok")
       ELSE /\ dstFile' = dstFile
            /\ Leave("PublishError")
    /\ UNCHANGED << run, optVars, outDirExists, outDir, procVars, waitVars, localVars, histVars >>
    /\ UNCHANGED auxVars

(***************************************************************************)
(* The environment: the game process and the module injected into it.      *)
(***************************************************************************)
\* the game exits by itself
ProcExit ==
    /\ proc = "running"
    /\ proc' = "exited"
    /\ UNCHANGED << pc, run, optVars, fsVars, injected, waitVars, localVars, result, trace, histVars >>
    /\ UNCHANGED auxVars

\* the injected module writes a bundle directory or a file into the output directory
ModuleWrite ==
    /\ proc = "running"
    /\ injected
    /\ outDirExists
    /\ moduleWrites < MaxModuleWrites
    /\ \E e \in Writable :
          /\ outDir' = WriteEntry(outDir, e)
          /\ bundlesWritten' = IF e.isDir THEN bundlesWritten \cup {e.name} ELSE bundlesWritten
    /\ moduleWrites' = moduleWrites + 1
    /\ UNCHANGED << pc, run, optVars, outDirExists, dstFile, procVars, waitVars, localVars,
                    result, trace, loc, startDir, startDst, staleArtifact, hits >>
    /\ UNCHANGED auxVars

Next ==
    \/ StartRun
    \/ CacheCheck
    \/ CheckExe
    \/ ClearOutput
    \/ AdminCheck
    \/ GetDllPath
    \/ Launch
    \/ LaunchCheck
    \/ WaitPoll
    \/ SettleCheck
    \/ Inject
    \/ TermGrace
    \/ TermObject
    \/ TermWait
    \/ TermKill
    \/ TermByName
    \/ LocateInHandler
    \/ CheckTerminated
    \/ LocateFinal
    \/ Publish
    \/ ProcExit
    \/ ModuleWrite

Spec == Init /\ [][Next]_vars

(***************************************************************************)
(* Properties.                                                             *)
(***************************************************************************)
Returned == pc = "done"
CacheHit == startDst # NoFile /\ ~force     \* the call was skipped by the cache check

\* exactly one bundle directory, whose Mappings directory holds exactly one file
WellFormed(d) ==
    /\ Cardinality(SubDirs(d)) = 1
    /\ \A e \in SubDirs(d) : e.hasMappings /\ Cardinality(e.mfiles) = 1

\* the content of that one file
ArtifactContent(d) ==
    LET e == CHOOSE x \in SubDirs(d) : TRUE
    IN  (CHOOSE m \in e.mfiles : TRUE).content

C2_EmptyOutputReraisesInjectionError ==
    (Returned /\ exc = "InjectionFailed" /\ loc.called /\ loc.dir = {})
        => result = "InjectionFailed"

\* C3: a wait timeout and a death during the settle window reach the caller
\* of main() as those errors, neither replaced nor turned into a success.
C3_WaitErrorsReachCaller ==
    (Returned /\ exc \in {"ProcessNotFound", "DiedDuringInit"}) => result = exc

\* C4: when the destination file exists and force is false, main() returns
\* the destination path having performed no step, and the output directory
\* and the destination file are as they were when it was called (also when
\* it is called again in that state).
C4_CachedCallDoesNothing ==
    (Returned /\ CacheHit)
        => (result = "ok" /\ trace = << >> /\ outDir = startDir /\ dstFile = startDst
            /\ proc = "none" /\ ~loc.called)

C4_Witness ==
    Returned /\ CacheHit /\ hits = 2 /\ result = "ok" /\ outDir # {} /\ dstFile = "c0"

\* C5: the output directory is empty when the game is launched, and the
\* bundle the locator returns a path in was never in the output directory
\* before the call began.
C5_NoStaleArtifact ==
    /\ (pc = "launch" => outDir = {})
    /\ (loc.called /\ loc.res.kind = "path")
          => \A e \in SubDirs(loc.dir) : e.name = loc.res.bundle => e.fresh

C5_Witness ==
    /\ staleArtifact /\ loc.called /\ loc.res.kind = "path" /\ result = "ok"
    /\ \E e \in SubDirs(loc.dir) : e.name = "b1" /\ e.fresh

\* C6: if the injected module writes at most one bundle directory in the
\* run, the output directory holds at most one subdirectory whenever the
\* locator is called.
C6_AtMostOneBundleAtLocate ==
    (loc.called /\ Cardinality(bundlesWritten) <= 1) => Cardinality(SubDirs(loc.dir)) <= 1

C6_Witness ==
    /\ staleArtifact /\ loc.called /\ Cardinality(bundlesWritten) = 1
    /\ Cardinality(SubDirs(loc.dir)) = 1 /\ exc = "none"

\* C7 as stated: once the game has been started, termination is attempted
\* on every exit path, the failed launch check included.
C7_TerminationOnEveryExit ==
    (Returned /\ Did("launch")) => Did("terminate")

\* C7 amended: termination is attempted on every exit path after the launch
\* check has passed; when the launch check fails (the game has exited by
\* then) main() raises without attempting termination.
C7_TerminationAfterLaunchCheck ==
    /\ (Returned /\ Did("launch") /\ result # "FailedToStart") => (Did("grace") /\ Did("terminate"))
    /\ (Returned /\ result = "FailedToStart") => (~Did("terminate") /\ proc = "exited")

C7_Witness ==
    /\ Returned /\ Did("terminate")
    /\ exc = "DiedDuringInit" /\ result = "InvalidSdkDirs"

\* C8: when the DLL or the game executable does not exist, a call that is
\* not skipped by the cache check fails, and no launch, wait, inject or
\* terminate step occurs in it.
C8_PreflightFailsBeforeLaunch ==
    (~dllExists \/ ~exeExists)
        => /\ ~Did("launch") /\ ~Did("wait") /\ ~Did("inject")
           /\ ~Did("terminate") /\ ~Did("kill_by_name")
           /\ proc = "none"
           /\ (Returned /\ ~CacheHit)
                 => result \in {"ExeNotFound", "DllNotFound", "OutputDirMissing"}

C8_Witness ==
    Returned /\ ~dllExists /\ exeExists /\ result = "DllNotFound" /\ ~CacheHit

\* C9 as stated: when a pre-flight check (DLL, executable) fails, the
\* output directory has not been cleared.
C9_PreflightFailureLeavesOutput ==
    (Returned /\ result \in {"ExeNotFound", "DllNotFound"})
        => (~Did("clear") /\ outDir = startDir)

\* C9 amended: the executable check precedes the clearing and the DLL check
\* follows it: a missing executable leaves the output directory unchanged,
\* a missing DLL is reported after the directory has been emptied (and
\* before any launch).
C9_OnlyExeCheckPrecedesClear ==
    /\ (Returned /\ result = "ExeNotFound") => (~Did("clear") /\ outDir = startDir)
    /\ (Returned /\ result = "DllNotFound") => (Did("clear") /\ outDir = {} /\ ~Did("launch"))

C9_Witness ==
    Returned /\ result = "DllNotFound" /\ startDir # {} /\ outDir = {}

\* C10: get_mapper_from_sdk returns a path only when the directory holds
\* exactly one subdirectory (plain files are not counted); with 0 or with 2
\* or more it raises the structural error carrying the count.
C10_ExactlyOneSubdirectory ==
    loc.called =>
        LET n == Cardinality(SubDirs(loc.dir))
        IN  /\ loc.res.kind = "path" => n = 1
            /\ n # 1 => loc.res = LocError("InvalidSdkDirs", n)

C10_Witness ==
    /\ loc.called /\ Cardinality(SubDirs(loc.dir)) = 2
    /\ \A e \in SubDirs(loc.dir) : e.hasMappings /\ Cardinality(e.mfiles) = 1
    /\ loc.res = LocError("InvalidSdkDirs", 2)

(***************************************************************************)
(* get_mapper_from_sdk on its own: main() stands at line 264 with no path  *)
(* resolved yet and the output directory is any directory of up to two     *)
(* bundles and a plain file, Mappings subdirectories included.             *)
(***************************************************************************)
LocateShapes ==
    { [hasMappings |-> FALSE, mfiles |-> {}, msubdirs |-> {}] }
    \cup { [hasMappings |-> TRUE, mfiles |-> fs, msubdirs |-> sd] :
             fs \in SUBSET {MapperFile("a.usmap", "c1"), MapperFile("b.usmap", "c2")},
             sd \in {{}, {"old"}} }

LocateDirs ==
    { bs \cup pf :
        bs \in { x \in SUBSET { Bundle(n, sh, TRUE) : n \in BundleNames, sh \in LocateShapes } :
                    \A e1, e2 \in x : e1.name = e2.name => e1 = e2 },
        pf \in { {}, {PlainFile(TRUE)} } }

\* the variables the single-function specifications do not use
PipelineAtRest ==
    /\ run = 1
    /\ force = FALSE
    /\ exeExists = TRUE
    /\ dllExists = TRUE
    /\ dstFile = NoFile
    /\ injected = FALSE
    /\ has_terminated = FALSE
    /\ mapping_file_path = NoLoc
    /\ termResult = FALSE
    /\ result = "none"
    /\ trace = << >>
    /\ loc = NoCall
    /\ startDir = {}
    /\ startDst = NoFile
    /\ staleArtifact = FALSE
    /\ hits = 0
    /\ moduleWrites = 0
    /\ bundlesWritten = {}
    /\ lastPoll = "none"
    /\ sleeps = 0
    /\ checks = << >>
    /\ termCalls = << >>
    /\ graceSlept = 0

\* the arguments main() passes down, and no PID found yet
ArgsOfMain ==
    /\ process_name = GameProcessName
    /\ timeout = WaitTimeout
    /\ initialization_time = InitializationTime
    /\ stdout = << >>
    /\ pid = NoPid

InitLocate ==
    /\ PipelineAtRest
    /\ UnitsAtRest
    /\ ArgsOfMain
    /\ pc = "l264"
    /\ outDirExists = TRUE
    /\ outDir \in LocateDirs
    /\ proc = "exited"
    /\ elapsed = 0
    /\ settled = InitializationTime
    /\ exc = "none"

NextLocate == LocateFinal

SpecLocate == InitLocate /\ [][NextLocate]_vars

\* the one bundle directory of a directory that holds exactly one
TheBundle(d) == CHOOSE e \in SubDirs(d) : TRUE

\* C11: inside the single bundle directory the Mappings directory must
\* exist and hold exactly one regular file, whatever subdirectories it has:
\* without Mappings, with no file or with several files an error is raised
\* and no path is returned.
C11_ExactlyOneMapperFile ==
    (loc.called /\ Cardinality(SubDirs(loc.dir)) = 1) =>
        LET b == TheBundle(loc.dir)
        IN  /\ ~b.hasMappings => loc.res = LocError("MappingsNotFound", 1)
            /\ (b.hasMappings /\ b.mfiles = {}) => loc.res = LocError("NoMapperFiles", 1)
            /\ (b.hasMappings /\ Cardinality(b.mfiles) > 1)
                  => loc.res = LocError("MultipleMapperFiles", 1)
            /\ loc.res.kind = "path" => (b.hasMappings /\ Cardinality(b.mfiles) = 1)
            /\ loc.res.kind # "path" => (pc = "done" /\ result = loc.res.kind /\ mapping_file_path = NoLoc)

C11_Witness ==
    /\ loc.called /\ Cardinality(SubDirs(loc.dir)) = 1
    /\ TheBundle(loc.dir).hasMappings
    /\ TheBundle(loc.dir).mfiles = {}
    /\ TheBundle(loc.dir).msubdirs # {}
    /\ loc.res = LocError("NoMapperFiles", 1)

\* C12: for a directory with exactly one subdirectory B (plain files beside
\* it or not) whose Mappings directory holds exactly one regular file F
\* (subdirectories beside it or not), get_mapper_from_sdk returns
\* dir/B/Mappings/F and the directory is as it was.
C12_WellFormedReturnsThePath ==
    (loc.called /\ Cardinality(SubDirs(loc.dir)) = 1
       /\ TheBundle(loc.dir).hasMappings /\ Cardinality(TheBundle(loc.dir).mfiles) = 1) =>
        LET b == TheBundle(loc.dir)
            f == CHOOSE m \in b.mfiles : TRUE
        IN  /\ loc.res = LocPath(b.name, f.fname)
            /\ mapping_file_path = loc.res
            /\ outDir = loc.dir
            /\ outDirExists /\ dstFile = NoFile

C12_Witness ==
    /\ loc.called /\ Cardinality(SubDirs(loc.dir)) = 1
    /\ \E e \in loc.dir : ~e.isDir
    /\ TheBundle(loc.dir).msubdirs # {}
    /\ loc.res = LocPath("b2", "b.usmap")
    /\ outDir = loc.dir

GracefulExit == << "poll_live", "terminate", "wait" >>
ForcedExit == << "poll_live", "terminate", "timeout", "kill", "wait" >>

\* C14: terminating a process whose handle shows that it has exited is a
\* no-op that reports success: terminate_process_object reports True and
\* terminate_game_process issues no kill.
C14_ExitedProcessIsNoOpSuccess ==
    (termCalls = << "poll_exited" >> /\ pc # "term_name")
        => (termResult = TRUE /\ ~Did("kill_by_name"))

C16_GraceBeforeTermination ==
    /\ (pc \in {"term_obj", "term_wait", "term_kill", "term_name"} \/ termCalls # << >>
          \/ Did("terminate") \/ Did("kill_by_name"))
        => graceSlept >= TerminateGrace
    /\ \A i \in 1..Len(trace) :
          /\ trace[i] \in {"terminate", "kill_by_name"} => \E j \in 1..(i - 1) : trace[j] = "grace"
          /\ trace[i] = "grace" => \A k \in (i + 1)..Len(trace) : trace[k] \notin {"wait", "inject"}

C16_Witness ==
    /\ exc = "InjectionFailed" /\ Did("inject") /\ Did("terminate") /\ Did("kill_by_name")
    /\ graceSlept = TerminateGrace /\ pc = "done"

(***************************************************************************)
(* The settle loop of wait_for_process_ready_for_injection on its own: the *)
(* process has been found and the loop starts, for every duration up to    *)
(* MaxSettle; the process may exit at any moment.                          *)
(***************************************************************************)
MaxSettle == 20

InitSettle ==
    /\ PipelineAtRest
    /\ UnitsAtRest
    /\ pc = "settle"
    /\ outDirExists = TRUE
    /\ outDir = {}
    /\ proc = "running"
    /\ elapsed = 0
    /\ settled = 0
    /\ exc = "none"
    /\ process_name = GameProcessName
    /\ timeout = WaitTimeout
    /\ initialization_time \in 0..MaxSettle
    /\ stdout = << >>
    /\ pid = GamePid

NextSettle ==
    \/ SettleCheck
    \/ ProcExit

SpecSettle == InitSettle /\ [][NextSettle]_vars

\* the settle wait has returned the PID: perform_dll_injection goes on to inject
SettleReturned == pc = "inject"

\* C17: when the process is gone at a liveness check of the settle loop, the
\* died-during-initialisation error is raised at that check, nothing more is
\* slept or checked, and no PID is returned; the PID is returned only when
\* the process existed at every check.
C17_DeathEndsTheSettleWait ==
    /\ sleeps = Len(checks)
    /\ \A i \in 1..(Len(checks) - 1) : checks[i] = "alive"
    /\ (checks # << >> /\ checks[Len(checks)] = "dead")
          => (exc = "DiedDuringInit" /\ pc = "term_grace" /\ ~SettleReturned)
    /\ SettleReturned => (exc = "none" /\ \A i \in 1..Len(checks) : checks[i] = "alive")

C17_Witness ==
    /\ initialization_time = 20
    /\ checks = << "alive", "dead" >>
    /\ sleeps = 2
    /\ exc = "DiedDuringInit"

\* C18: for every settle duration d >= 0, when the process stays alive the
\* sub-interval sleeps of CheckInterval seconds total d:
\* (number of sleeps) * CheckInterval = d.
C18_TotalSleepEqualsDuration ==
    SettleReturned => sleeps * CheckInterval = initialization_time

(***************************************************************************)
(* One scan of the process table by wait_for_process_by_name               *)
(* (utils.py:312-333) on its own, for every listing of up to MaxLines      *)
(* lines: rows of the process waited for (name cut to 25 columns, in the   *)
(* case of the name or not), rows of other processes, and the lines        *)
(* tasklist prints that are not rows.  Image names hold no blanks.         *)
(***************************************************************************)
MaxLines == 2

\* the rows, with the process each belongs to and its PID
ProcessTableRows ==
    { [text |-> GameRowText,         image |-> "game",     pid |-> 4242],
      [text |-> GameRowLowerText,    image |-> "game",     pid |-> 4243],
      [text |-> NotepadRowText,      image |-> "notepad",  pid |-> 77],
      [text |-> NotepadRowUpperText, image |-> "notepad",  pid |-> 78],
      [text |-> ExplorerRowText,     image |-> "explorer", pid |-> 500],
      [text |-> LauncherRowText,     image |-> "launcher", pid |-> 600] }

LineTexts == { r.text : r \in ProcessTableRows } \cup { HeaderText, SeparatorText, InfoText }

Listings == UNION { [1..n -> LineTexts] : n \in 0..MaxLines }

\* the process a name is the image name of
ImageOf(name) == IF name = GameProcessName THEN "game" ELSE "notepad"

InitMatch ==
    /\ PipelineAtRest
    /\ UnitsAtRest
    /\ pc = "scan"
    /\ outDirExists = TRUE
    /\ outDir = {}
    /\ proc = "running"
    /\ elapsed = 0
    /\ settled = 0
    /\ exc = "none"
    /\ process_name \in {GameProcessName, NotepadName}
    /\ timeout = WaitTimeout
    /\ initialization_time = InitializationTime
    /\ stdout \in Listings
    /\ pid = NoPid

\* lines 315-333 on the output of one tasklist call
ScanTable ==
    /\ pc = "scan"
    /\ pid' = scan_lines(process_name, stdout, 1)
    /\ pc' = "scanned"
    /\ UNCHANGED << run, optVars, fsVars, procVars, waitVars, localVars, result, trace, histVars,
                    argVars, unitVars, lastPoll, settleVars, termVars >>

NextMatch == ScanTable

SpecMatch == InitMatch /\ [][NextMatch]_vars

\* the rows of a listing that belong to the process of the given name
RowsOf(name, lines) ==
    { i \in 1..Len(lines) :
        \E r \in ProcessTableRows : r.text = lines[i] /\ r.image = ImageOf(name) }

\* the PID of the first of them, NoPid when there is none
FirstRowPid(name, lines) ==
    IF RowsOf(name, lines) = {}
    THEN NoPid
    ELSE LET i == CHOOSE k \in RowsOf(name, lines) : \A j \in RowsOf(name, lines) : k <= j
         IN  (CHOOSE r \in ProcessTableRows : r.text = lines[i]).pid

MaxTimeout == 12

InitWait ==
    /\ PipelineAtRest
    /\ UnitsAtRest
    /\ pc = "wait"
    /\ outDirExists = TRUE
    /\ outDir = {}
    /\ proc \in {"none", "running"}
    /\ elapsed = 0
    /\ settled = 0
    /\ exc = "none"
    /\ process_name = GameProcessName
    /\ timeout \in 0..MaxTimeout
    /\ initialization_time = InitializationTime
    /\ stdout = << >>
    /\ pid = NoPid

NextWait ==
    \/ WaitPoll
    \/ ProcExit

SpecWait == InitWait /\ [][NextWait]_vars /\ WF_vars(WaitPoll)

\* wait_for_process_by_name has returned a PID (line 333) or raised (line 363)
WaitReturned == pc = "settle"
WaitRaised == pc = "term_grace"

WaitSafety ==
    /\ pc \in {"wait", "settle", "term_grace"}
    /\ elapsed % PollInterval = 0
    /\ lastPoll = "listed" => (WaitReturned /\ pid = GamePid)
    /\ WaitReturned => (lastPoll = "listed" /\ pid = GamePid /\ elapsed < timeout /\ exc = "none")
    /\ pid # NoPid => WaitReturned
    /\ WaitRaised => (exc = "ProcessNotFound" /\ pid = NoPid /\ elapsed >= timeout
                       /\ lastPoll \in {"none", "not_listed", "failed"})
    /\ (lastPoll = "failed" /\ elapsed < timeout) => pc = "wait"

\* C20: wait_for_process_by_name always terminates; it polls every
\* PollInterval seconds, returns the PID at the first poll that lists a row
\* of the process, raises the not-found error when no poll before the
\* deadline lists one, never returns a PID of a process that was not listed,
\* and a failed query of the process table does not end the wait.
C20_WaitTerminates == [](WaitSafety) /\ <>(WaitReturned \/ WaitRaised)

C20_Witness ==
    /\ WaitRaised /\ exc = "ProcessNotFound" /\ timeout = 12 /\ elapsed = 15
    /\ lastPoll = "failed" /\ proc = "running"

(***************************************************************************)
(* Order of the steps of main().                                           *)
(***************************************************************************)
\* the position of the first occurrence of a step in the trace, 0 when there is none
FirstAt(step) ==
    IF Did(step) THEN CHOOSE i \in 1..Len(trace) : trace[i] = step /\ \A j \in 1..(i - 1) : trace[j] # step
    ELSE 0

\* C24: when the launched game has already exited at the check made after
\* the launch, main() fails with the 'failed to start' error and the run has
\* no wait for the process, no injection, no artifact location and no copy.
C24_FailedLaunchStopsTheRun ==
    /\ (Returned /\ Did("launch") /\ ~Did("wait")) => result = "FailedToStart"
    /\ result = "FailedToStart"
          => /\ Returned /\ proc = "exited"
             /\ ~Did("wait") /\ ~Did("inject") /\ ~Did("locate") /\ ~Did("copy")
             /\ pid = NoPid /\ ~loc.called /\ dstFile = startDst

C24_Witness ==
    /\ result = "FailedToStart" /\ trace = << "clear", "launch" >> /\ proc = "exited"

\* C25: the administrator check neither ends nor redirects main(): the step
\* taken at the check is the same step whether is_admin() answers true or
\* false, so the runs with either answer are the same runs.
C25_AdminCheckChangesNothing ==
    [][pc = "admin" => (main_after_is_admin(TRUE) /\ main_after_is_admin(FALSE))]_vars

C25_Witness ==
    /\ pc = "check_dll" /\ trace = << "clear" >> /\ result = "none"

\* C29: the artifact locator is called only after termination of the game
\* has been attempted, the copy is made only after the locator has returned
\* a path, and after an injection reported as successful the steps are
\* grace, terminate (kill by name if that reports failure), locate, copy.
C29_TerminateLocatePublish ==
    /\ Did("locate") => (Did("terminate") /\ FirstAt("terminate") < FirstAt("locate"))
    /\ loc.called => (Did("terminate") /\ pc \in {"publish", "done", "l261", "l264"})
    /\ Did("copy") => /\ Did("locate") /\ FirstAt("locate") < FirstAt("copy")
                      /\ loc.called /\ loc.res.kind = "path" /\ mapping_file_path = loc.res
    /\ pc = "publish" => (loc.called /\ loc.res.kind = "path")
    /\ (Did("inject") /\ exc = "none" /\ Returned)
          => SubSeq(trace, FirstAt("inject") + 1, Len(trace))
                \in { << "grace", "terminate", "locate" >>,
                      << "grace", "terminate", "locate", "copy" >>,
                      << "grace", "terminate", "kill_by_name", "locate" >>,
                      << "grace", "terminate", "kill_by_name", "locate", "copy" >> }

C29_Witness ==
    /\ Returned /\ exc = "none" /\ result = "ok"
    /\ SubSeq(trace, FirstAt("inject") + 1, Len(trace)) = << "grace", "terminate", "locate", "copy" >>

\* C30: the injection is called only after wait_for_process_by_name has
\* returned a PID and the settle wait has ended without an error; when the
\* wait times out or the process dies while settling, the injection is not
\* called in that run.
C30_InjectOnlyWhenReady ==
    /\ (pc = "inject" \/ Did("inject"))
          => /\ pid = GamePid /\ lastPoll = "listed"
             /\ settled >= initialization_time
             /\ sleeps = Len(checks) /\ \A i \in 1..Len(checks) : checks[i] = "alive"
             /\ exc \in {"none", "InjectionFailed"}
    /\ exc \in {"ProcessNotFound", "DiedDuringInit", "LivenessCheckFailed"}
          => (~Did("inject") /\ ~injected)

C30_Witness ==
    /\ exc = "DiedDuringInit" /\ Returned /\ ~Did("inject") /\ Did("terminate")
    /\ checks = << "alive", "dead" >>

(***************************************************************************)
(* One call of main(), from every start of Init, with a destination file   *)
(* system on which the copy of line 278 can fail.                          *)
(***************************************************************************)
\* what a shutil.copy2 that raises leaves at the destination: the file that
\* was there (the destination could not be opened), or a part of the copy
PartialFile == "partial"
AfterFailedCopy(dst) == {dst, PartialFile}

\* lines 272-281 with a shutil.copy2 that returns, or raises: because the
\* source is gone, before the destination is written, or while it is written
PublishOrFail ==
    /\ pc = "publish"
    /\ Log("copy")
    /\ IF PathExists(outDir, mapping_file_path.bundle, mapping_file_path.file)
       THEN \/ /\ dstFile' = ContentAt(outDir, mapping_file_path.bundle, mapping_file_path.file)
               /\ Leave("ok")
            \/ /\ dstFile' \in AfterFailedCopy(dstFile)
               /\ Leave("CopyFailed")
       ELSE /\ dstFile' = dstFile
            /\ Leave("PublishError")
    /\ UNCHANGED << run, optVars, outDirExists, outDir, procVars, waitVars, localVars, histVars >>
    /\ UNCHANGED auxVars

\* the one call of main(options)
StartOneRun == pc = "idle" /\ StartRun

\* a step of main() and of the functions it calls
PipelineStep ==
    \/ StartOneRun
    \/ CacheCheck
    \/ CheckExe
    \/ ClearOutput
    \/ AdminCheck
    \/ GetDllPath
    \/ Launch
    \/ LaunchCheck
    \/ WaitPoll
    \/ SettleCheck
    \/ Inject
    \/ TermGrace
    \/ TermObject
    \/ TermWait
    \/ TermKill
    \/ TermByName
    \/ LocateInHandler
    \/ CheckTerminated
    \/ LocateFinal
    \/ PublishOrFail

NextOneRun ==
    \/ PipelineStep
    \/ ProcExit
    \/ ModuleWrite

SpecOneRun == Init /\ [][NextOneRun]_vars

\* the call runs on: every call of the operating system returns, and the
\* interpreter takes the next step of main() whenever there is one
FairOneRun == SpecOneRun /\ WF_vars(PipelineStep)

(***************************************************************************)
(* How often the steps of main() are taken in one run.                     *)
(***************************************************************************)
\* the number of times a step has been taken in the current run
Times(step) == Cardinality({ i \in 1..Len(trace) : trace[i] = step })

\* the steps of terminate_game_process after its grace sleep
TermSteps == {"term_obj", "term_wait", "term_kill", "term_name"}

\* C31: in every run the injection is invoked at most once, whatever it
\* reports: a reported failure is raised into the handler, a reported
\* success goes on to the termination, and neither comes back to the
\* injection.
C31_InjectionAtMostOnce ==
    /\ Times("inject") <= 1
    /\ pc = "inject" => ~Did("inject")
    /\ exc = "InjectionFailed" => (Times("inject") = 1 /\ pc # "inject")

C31_Witness ==
    /\ Returned /\ exc = "InjectionFailed" /\ Times("inject") = 1 /\ ~injected

\* C32: get_mapper_from_sdk is called at most twice in a run, never before
\* the game has been launched; a call in the handler is made only with an
\* exception caught, and once a path has been resolved no further call is
\* made.
C32_LocatorAtMostTwice ==
    /\ Times("locate") <= 2
    /\ \A i \in 1..Len(trace) : trace[i] = "locate" => \E j \in 1..(i - 1) : trace[j] = "launch"
    /\ pc = "l256" => (exc # "none" /\ ~Did("locate") /\ mapping_file_path = NoLoc)
    /\ mapping_file_path # NoLoc => Times("locate") = 1
    /\ Times("locate") = 2 => exc # "none"

C32_Witness ==
    /\ Returned /\ result = "ok" /\ exc = "InjectionFailed" /\ Times("locate") = 1
    /\ trace[Len(trace)] = "copy"

\* C33: terminate_game_process takes the handle-based termination first and
\* the kill by name only directly after a handle-based termination that
\* reported failure; after a handle-based termination that reported success
\* there is no kill by name.
C33_HandleFirstThenByName ==
    /\ Times("terminate") <= 1 /\ Times("kill_by_name") <= 1
    /\ \A i \in 1..Len(trace) : trace[i] = "kill_by_name" => (i > 1 /\ trace[i - 1] = "terminate")
    /\ pc = "term_name" => (termResult = FALSE /\ trace[Len(trace)] = "terminate")
    /\ Did("kill_by_name")
          => /\ termResult = FALSE
             /\ termCalls \in { << "poll_exited" >>, << "poll_live", "raised" >> }
    /\ (Did("terminate") /\ pc \notin TermSteps /\ termResult = TRUE) => ~Did("kill_by_name")

C33_Witness ==
    /\ Returned /\ Did("kill_by_name") /\ termCalls = << "poll_live", "raised" >>
    /\ termResult = FALSE /\ proc = "exited"

\* C34: terminate_game_process raises nothing and its result is not looked
\* at: after the termination steps, whatever they reported, the run goes on
\* to the artifact locator with the caught exception unchanged, and what
\* main() returns or raises is decided by the locator and the copy alone.
C34_TerminationFailureIsNotAnOutcome ==
    /\ (Did("terminate") /\ pc \notin TermSteps)
          => (pc \in {"l256", "l261", "l264", "publish", "done"} /\ (Returned => loc.called))
    /\ (Returned /\ loc.called)
          => /\ loc.res.kind = "path" => result \in {"ok", "PublishError", "CopyFailed"}
             /\ loc.res.kind # "path" => result = loc.res.kind

C34_Witness ==
    /\ Returned /\ result = "ok" /\ Did("kill_by_name") /\ termResult = FALSE /\ proc = "running"

\* C37 as stated: in every run that ends in a failure the file at the
\* destination is the file of the start of the run, neither created nor
\* overwritten.
C37_FailureLeavesTheDestination ==
    (Returned /\ result # "ok") => dstFile = startDst

\* C37: the destination is written only by the copy, the last step, taken
\* with a path returned by the locator; in a run that ends in any failure
\* but a failure of that copy itself the file at the destination is the
\* file of the start of the run, and a copy that fails leaves that file or
\* a part of the copy.
C37_OnlyTheCopyWritesTheDestination ==
    /\ (Returned /\ result \notin {"ok", "CopyFailed"}) => dstFile = startDst
    /\ ~Returned => dstFile = startDst
    /\ dstFile # startDst
          => /\ trace[Len(trace)] = "copy" /\ Times("copy") = 1
             /\ loc.called /\ loc.res.kind = "path"
    /\ (Returned /\ result = "CopyFailed") => dstFile \in AfterFailedCopy(startDst)

C37_Witness ==
    /\ Returned /\ result \in {"InvalidSdkDirs", "PublishError"} /\ startDst # NoFile
    /\ dstFile = startDst /\ Did("locate")

\* C36: every call of main() that has started ends, with a return or a
\* raise; on the way the time waited for the process never exceeds the
\* timeout by a poll interval or more, and the time settled never exceeds
\* the settle duration by a check interval or more.
C36_EveryRunEnds ==
    /\ [](elapsed < timeout + PollInterval /\ settled < initialization_time + CheckInterval)
    /\ (pc \notin {"idle", "done"}) ~> Returned

C36_Witness ==
    /\ Returned /\ result \notin {"none", "ok"} /\ exc = "ProcessNotFound"
    /\ elapsed >= timeout /\ lastPoll # "listed"

(***************************************************************************)
(* copy_mapper_file_to_output (get_mapper.py:57-85), called on its own.    *)
(* The destination is a path other than the source; parent_dir = 0 is a    *)
(* destination with no directory part, a bare file name, of which          *)
(* os.path.dirname is ''.                                                  *)
(***************************************************************************)
MaxParents == 2

\* the rest of the model, idle
MainIdle ==
    /\ PipelineAtRest
    /\ ArgsOfMain
    /\ pc = "idle"
    /\ outDirExists = TRUE
    /\ outDir = {}
    /\ proc = "none"
    /\ elapsed = 0
    /\ settled = 0
    /\ exc = "none"

MainUnchanged ==
    /\ UNCHANGED << pc, run, optVars, fsVars, procVars, waitVars, localVars, result, trace, histVars >>
    /\ UNCHANGED << argVars, pollVars, settleVars, termVars >>

FileContents == {"c0", "c1", "c2"}

InitCopy ==
    /\ MainIdle
    /\ ClearAtRest
    /\ DepotAtRest
    /\ ReleaseAtRest
    /\ RunAtRest
    /\ LocateAtRest
    /\ \E source \in {NoFile, "c1", "c2"}, levels \in 0..MaxParents :
       \E gone \in 0..levels :
       \E destination \in IF gone = 0 THEN {NoFile} \cup FileContents ELSE {NoFile} :
          copyCall = [source_mapper_path |-> source, output_mapper_file |-> destination,
                      parent_dir |-> levels, missing |-> gone,
                      copyFault |-> "none", copied |-> "unset", dstBefore |-> destination]

\* os.makedirs(parent_dir, exist_ok=True) raises: '' cannot be created (FileNotFoundError)
makedirs_raises(c, fault) == c.parent_dir = 0 \/ fault = "makedirs"

\* what a failed os.makedirs may leave missing: it may have created the outer levels
AfterFailedMakedirs(c, fault) ==
    IF c.missing = 0 \/ fault # "makedirs" THEN {c.missing} ELSE 1..c.missing

\* mutant: no handler around the body, an error of a system call leaves the function
copy_mapper_file_uncaught(c, fault) ==
    IF c.source_mapper_path = NoFile
    THEN { [c EXCEPT !.copied = "None"] }
    ELSE IF makedirs_raises(c, fault)
    THEN { [c EXCEPT !.copied = "raised", !.missing = m,
                     !.copyFault = IF fault = "makedirs" THEN fault ELSE "none"]
             : m \in AfterFailedMakedirs(c, fault) }
    ELSE IF fault = "copy2"
    THEN { [c EXCEPT !.copied = "raised", !.missing = 0, !.copyFault = fault, !.output_mapper_file = d]
             : d \in {c.output_mapper_file, "partial"} }
    ELSE { [c EXCEPT !.copied = "path", !.missing = 0, !.output_mapper_file = c.source_mapper_path] }

\* lines 68-85: the states the call can leave; `fault` is the system call that fails in this call, if any;
\* a failed shutil.copy2 may have written a part of the destination
copy_mapper_file(c, fault) ==
    IF c.source_mapper_path = NoFile
    THEN { [c EXCEPT !.copied = "None"] }
    ELSE IF makedirs_raises(c, fault)
    THEN { [c EXCEPT !.copied = "None", !.missing = m,
                     !.copyFault = IF fault = "makedirs" THEN fault ELSE "none"]
             : m \in AfterFailedMakedirs(c, fault) }
    ELSE IF fault = "copy2"
    THEN { [c EXCEPT !.copied = "None", !.missing = 0, !.copyFault = fault, !.output_mapper_file = d]
             : d \in {c.output_mapper_file, "partial"} }
    ELSE { [c EXCEPT !.copied = "path", !.missing = 0, !.output_mapper_file = c.source_mapper_path] }

copy_mapper_file_to_output ==
    /\ copyCall.copied = "unset"
    /\ \E fault \in {"none", "makedirs", "copy2"} : copyCall' \in copy_mapper_file(copyCall, fault)
    /\ UNCHANGED << clearCall, depot, release, runMain, locateCall >>
    /\ MainUnchanged

NextCopy == copy_mapper_file_to_output

SpecCopy == InitCopy /\ [][NextCopy]_vars

CopyReturned == copyCall.copied # "unset"

\* C21: called with an existing source file, and no system call failing, copy_mapper_file_to_output leaves
\* every parent directory of the destination existing, the destination holding the content of the source
\* whether or not a file was there before, the source in place, and returns the destination path
C21_CopyPublishesTheSource ==
    (CopyReturned /\ copyCall.source_mapper_path # NoFile /\ copyCall.copyFault = "none")
        => /\ copyCall.missing = 0
           /\ copyCall.output_mapper_file = copyCall.source_mapper_path
           /\ copyCall.copied = "path"

\* C22: copy_mapper_file_to_output never raises; it returns None when the source does not exist and when
\* creating the parent directory or copying fails; when the source does not exist the destination path
\* is left as it was, so no file is created there
C22_CopyNeverRaises ==
    CopyReturned
        => /\ copyCall.copied \in {"path", "None"}
           /\ (copyCall.source_mapper_path = NoFile \/ copyCall.copyFault # "none") => copyCall.copied = "None"
           /\ copyCall.source_mapper_path = NoFile => copyCall.output_mapper_file = copyCall.dstBefore

C22_Witness ==
    /\ CopyReturned
    /\ copyCall.copyFault = "copy2"
    /\ copyCall.source_mapper_path = "c2"
    /\ copyCall.copied = "None"

(***************************************************************************)
(* utils.clear_dir (utils.py:158-165), called on its own, one step for     *)
(* the call of os.listdir and one for each iteration of the loop.  An item *)
(* is a file or a directory; `entries` is the number of entries inside a   *)
(* directory.  A name that starts with a dot is a hidden one.              *)
(***************************************************************************)
Items == { [name |-> "a.txt",   isDir |-> FALSE, entries |-> 0],
           [name |-> ".hidden", isDir |-> FALSE, entries |-> 0],
           [name |-> "sub",     isDir |-> TRUE,  entries |-> 2],
           [name |-> "empty",   isDir |-> TRUE,  entries |-> 0],
           [name |-> ".cache",  isDir |-> TRUE,  entries |-> 1] }

InitClear ==
    /\ MainIdle
    /\ CopyAtRest
    /\ DepotAtRest
    /\ ReleaseAtRest
    /\ RunAtRest
    /\ LocateAtRest
    /\ \E exists \in BOOLEAN :
       \E items \in IF exists THEN SUBSET Items ELSE {{}} :
          clearCall = [dir_exists |-> exists, dir_items |-> items, listing |-> {}, reached |-> {},
                       cleared |-> "call"]

\* line 160: os.listdir lists every entry, hidden ones too, and raises when there is no such directory
ListDir ==
    /\ clearCall.cleared = "call"
    /\ clearCall' = IF clearCall.dir_exists
                    THEN [clearCall EXCEPT !.listing = clearCall.dir_items, !.cleared = "loop"]
                    ELSE [clearCall EXCEPT !.cleared = "raised"]
    /\ UNCHANGED << copyCall, depot, release, runMain, locateCall >>
    /\ MainUnchanged

\* mutant: os.rmdir in place of shutil.rmtree, which removes only an empty directory
remove_empty_only(items, item) ==
    IF item.isDir /\ item.entries > 0 THEN items ELSE items \ {item}

\* lines 162-165: shutil.rmtree removes a directory with all it holds, os.remove a file
remove(items, item) == items \ {item}

\* lines 160-165: one iteration; the function returns when the loop has reached every listed item
ClearItem ==
    /\ clearCall.cleared = "loop"
    /\ IF clearCall.reached = clearCall.listing
       THEN clearCall' = [clearCall EXCEPT !.cleared = "returned"]
       ELSE \E item \in clearCall.listing \ clearCall.reached :
               clearCall' = [clearCall EXCEPT !.dir_items = remove(clearCall.dir_items, item),
                                              !.reached = clearCall.reached \cup {item}]
    /\ UNCHANGED << copyCall, depot, release, runMain, locateCall >>
    /\ MainUnchanged

NextClear == ListDir \/ ClearItem

SpecClear == InitClear /\ [][NextClear]_vars

\* C23: when clear_dir returns, the directory still exists and is empty, whatever files, hidden files
\* and subdirectories (empty or not) it held; called on a directory that does not exist it raises, and
\* neither the directory nor anything in it has been created
C23_ClearLeavesAnEmptyDirectory ==
    /\ clearCall.cleared = "returned" => (clearCall.dir_exists /\ clearCall.dir_items = {})
    /\ clearCall.cleared = "raised" => (~clearCall.dir_exists /\ clearCall.dir_items = {})
    /\ ~clearCall.dir_exists => clearCall.cleared \in {"call", "raised"}

C23_Witness ==
    /\ clearCall.cleared = "returned"
    /\ clearCall.listing = Items
    /\ clearCall.dir_exists
    /\ clearCall.dir_items = {}

(***************************************************************************)
(* DepotDownloader.run (run_depot_downloader.py:27-40) on a directory      *)
(* whose manifest.txt may exist.  Manifest ids are strings of digits; the  *)
(* text of manifest.txt is any of the texts below, since the file is read  *)
(* with f.read().strip() and written with f.write(manifest_id).            *)
(***************************************************************************)
MaxDepotRuns == 2

Whitespace == { " ", "\n", "\t" }

ManifestIds == { << "1", "2" >>, << "3", "4" >> }

ManifestTexts == ManifestIds \cup { << >>, << "1", "2", "\n" >>, << " ", "3", "4" >>, << "1", " ", "2" >> }

\* str.strip(): the text without its leading and trailing whitespace
strip(s) ==
    LET keep == { i \in 1..Len(s) : s[i] \notin Whitespace }
    IN  IF keep = {} THEN << >>
        ELSE SubSeq(s, CHOOSE i \in keep : \A j \in keep : i <= j,
                       CHOOSE i \in keep : \A j \in keep : j <= i)

InitDepot ==
    /\ MainIdle
    /\ CopyAtRest
    /\ ClearAtRest
    /\ ReleaseAtRest
    /\ RunAtRest
    /\ LocateAtRest
    /\ \E file \in {NoText} \cup { [exists |-> TRUE, text |-> t] : t \in ManifestTexts } :
          depot = [manifest_txt |-> file, runs |-> << >>]

\* Python's None as a manifest id: what _get_latest_manifest_id returns when the listing of the temporary
\* directory holds no manifest file (lines 88-96), and what the reader returns for a missing manifest.txt
NoId == << "None" >>

\* lines 58-64
read_downloaded_manifest_id(manifest_txt) ==
    IF manifest_txt.exists THEN strip(manifest_txt.text) ELSE NoId

\* line 35: downloaded_manifest_id == manifest_id
already_downloaded(manifest_txt, manifest_id) ==
    read_downloaded_manifest_id(manifest_txt) = manifest_id

\* mutant: the force flag is not looked at
skip_download_ignoring_force(manifest_txt, manifest_id, self_force) ==
    already_downloaded(manifest_txt, manifest_id)

\* line 35
skip_download(manifest_txt, manifest_id, self_force) ==
    already_downloaded(manifest_txt, manifest_id) /\ ~self_force

\* mutant: the id is written to manifest.txt before the download is made
run_manifest_writing_first(d, manifest_id, self_force, given, exit_ok) ==
    LET call == [manifest_id |-> manifest_id, force |-> self_force, given |-> given, before |-> d.manifest_txt]
        written == [exists |-> TRUE, text |-> manifest_id]
    IN  IF skip_download(d.manifest_txt, manifest_id, self_force)
        THEN [d EXCEPT !.runs = Append(@, call @@ [downloads |-> 0, writes |-> 0, raised |-> FALSE])]
        ELSE [manifest_txt |-> written,
              runs |-> Append(d.runs, call @@ [downloads |-> 1, writes |-> 1,
                                               raised |-> ~(exit_ok /\ manifest_id # NoId)])]

\* lines 27-40; `given` is the manifest_id argument (FALSE: None, and manifest_id is what the lookup of
\* the latest id returned), `exit_ok` tells whether the DepotDownloader process of _download ends with
\* exit code 0 (run_process raises otherwise, as it does when its argument list holds None)
run_manifest(d, manifest_id, self_force, given, exit_ok) ==
    LET call == [manifest_id |-> manifest_id, force |-> self_force, given |-> given, before |-> d.manifest_txt]
    IN  IF skip_download(d.manifest_txt, manifest_id, self_force)
        THEN [d EXCEPT !.runs = Append(@, call @@ [downloads |-> 0, writes |-> 0, raised |-> FALSE])]
        ELSE IF exit_ok /\ manifest_id # NoId
        THEN [manifest_txt |-> [exists |-> TRUE, text |-> manifest_id],
              runs |-> Append(d.runs, call @@ [downloads |-> 1, writes |-> 1, raised |-> FALSE])]
        ELSE [d EXCEPT !.runs = Append(@, call @@ [downloads |-> 1, writes |-> 0, raised |-> TRUE])]

DepotRun ==
    /\ Len(depot.runs) < MaxDepotRuns
    /\ \E given \in BOOLEAN, self_force \in BOOLEAN, exit_ok \in BOOLEAN :
       \E manifest_id \in IF given THEN ManifestIds ELSE ManifestIds \cup {NoId} :
          depot' = run_manifest(depot, manifest_id, self_force, given, exit_ok)
    /\ UNCHANGED << copyCall, clearCall, release, runMain, locateCall >>
    /\ MainUnchanged

NextDepot == DepotRun

SpecDepot == InitDepot /\ [][NextDepot]_vars

\* the file records the id: its text, stripped as the reader strips it, is the id
Records(file, manifest_id) == file.exists /\ strip(file.text) = manifest_id

\* C26: for a manifest id m, a call run(m) makes neither a download nor a write exactly when manifest.txt records m and force is
\* False; otherwise it downloads m and, the download having succeeded, writes m to manifest.txt.  So of two
\* calls run(m) in a row, the first having returned, the second one downloads nothing without force, and
\* with force downloads again and (on success) records m again
C26_DownloadUnlessRecorded ==
    \A i \in 1..Len(depot.runs) :
        LET r == depot.runs[i]
            after == IF i < Len(depot.runs) THEN depot.runs[i + 1].before ELSE depot.manifest_txt
        IN  r.manifest_id \in ManifestIds =>
            /\ (Records(r.before, r.manifest_id) /\ ~r.force)
                => (r.downloads = 0 /\ r.writes = 0 /\ ~r.raised /\ after = r.before)
            /\ ~(Records(r.before, r.manifest_id) /\ ~r.force)
                => /\ r.downloads = 1
                   /\ ~r.raised => (r.writes = 1 /\ after.exists /\ after.text = r.manifest_id)
                   /\ r.raised => (r.writes = 0 /\ after = r.before)
            /\ (i > 1 /\ ~depot.runs[i - 1].raised /\ depot.runs[i - 1].manifest_id = r.manifest_id)
                => /\ ~r.force => r.downloads = 0
                   /\ r.force => r.downloads = 1

C26_Witness ==
    /\ Len(depot.runs) = 2
    /\ depot.runs[1].manifest_id = depot.runs[2].manifest_id
    /\ depot.runs[1].downloads = 1 /\ ~depot.runs[1].raised
    /\ depot.runs[2].force /\ depot.runs[2].downloads = 1 /\ depot.runs[2].writes = 1

\* C38: manifest.txt is changed only after _download has returned: a call of run whose download raises
\* leaves manifest.txt as it was, so the next call for the same manifest id without force downloads again
C38_FailedDownloadIsRetried ==
    \A i \in 1..Len(depot.runs) :
        LET r == depot.runs[i]
            after == IF i < Len(depot.runs) THEN depot.runs[i + 1].before ELSE depot.manifest_txt
        IN  (r.manifest_id \in ManifestIds /\ r.raised)
                => /\ r.writes = 0 /\ after = r.before
                   /\ (i < Len(depot.runs) /\ depot.runs[i + 1].manifest_id = r.manifest_id
                          /\ ~depot.runs[i + 1].force)
                         => depot.runs[i + 1].downloads = 1

\* C38, amended: a call of run whose download raises leaves manifest.txt as it was; the next call for the
\* same manifest id without force downloads again exactly when manifest.txt did not record that id
\* before the failed call (a failed forced download of the recorded id is not tried again)
C38_FailedDownloadLeavesTheRecord ==
    \A i \in 1..Len(depot.runs) :
        LET r == depot.runs[i]
            after == IF i < Len(depot.runs) THEN depot.runs[i + 1].before ELSE depot.manifest_txt
        IN  (r.manifest_id \in ManifestIds /\ r.raised)
                => /\ r.writes = 0 /\ after = r.before
                   /\ (i < Len(depot.runs) /\ depot.runs[i + 1].manifest_id = r.manifest_id
                          /\ ~depot.runs[i + 1].force)
                         => (depot.runs[i + 1].downloads = 1 <=> ~Records(r.before, r.manifest_id))

C38_Witness ==
    /\ Len(depot.runs) = 2
    /\ depot.runs[1].raised /\ ~depot.runs[1].force /\ depot.runs[1].given
    /\ depot.runs[1].before.exists
    /\ depot.runs[2].manifest_id = depot.runs[1].manifest_id
    /\ ~depot.runs[2].force /\ depot.runs[2].downloads = 1 /\ depot.runs[2].writes = 1

\* C39: a call run(None) either downloads the latest manifest and records its id, or returns early because
\* manifest.txt records that id; it does not return early when there is no manifest.txt, also when the
\* lookup of the latest id found no manifest file
C39_NoSkipWithoutManifestFile ==
    \A i \in 1..Len(depot.runs) :
        LET r == depot.runs[i]
        IN  (~r.given /\ r.downloads = 0)
                => (r.before.exists /\ Records(r.before, r.manifest_id))

(***************************************************************************)
(* DependencyManager.download_github_release_latest                        *)
(* (dependency_manager.py:158-235) for a release whose matching asset is a *)
(* ZIP file, with download_and_extract (64-156) and the version file       *)
(* (30-62).  The tag of a release is a non-empty text.                     *)
(***************************************************************************)
MaxReleaseCalls == 2

Tags == { << "v", "1" >>, << "v", "2" >> }

VersionTexts == Tags \cup { << >>, << "v", "1", "\n" >> }

\* lines 30-47: None (here: no text equals it) when version.txt does not exist
installed_is(file, version) == file.exists /\ strip(file.text) = version

InitRelease ==
    /\ MainIdle
    /\ CopyAtRest
    /\ ClearAtRest
    /\ DepotAtRest
    /\ RunAtRest
    /\ LocateAtRest
    /\ \E file \in {NoText} \cup { [exists |-> TRUE, text |-> t] : t \in VersionTexts } :
          release = [version_txt |-> file, calls |-> << >>]

\* lines 92-135 of download_and_extract with version = the tag, which is not empty: what it downloads and
\* returns, and what it leaves in version.txt.  `net_ok` tells whether the download, the validation and
\* the extraction succeed (an exception otherwise, line 146), `write_ok` whether version.txt can be
\* written (_write_version_file only logs a failure, line 62)
download_and_extract(version_txt, version, net_ok, write_ok) ==
    IF installed_is(version_txt, version)
    THEN [downloads |-> 0, result |-> "True", file |-> version_txt]
    ELSE IF ~net_ok
    THEN [downloads |-> 1, result |-> "raised", file |-> version_txt]
    ELSE [downloads |-> 1, result |-> "True",
          file |-> IF write_ok THEN [exists |-> TRUE, text |-> version] ELSE version_txt]

\* lines 172-235; `has_asset` tells whether an asset of the release matches the pattern
download_github_release_latest(r, force_download, version, has_asset, net_ok, write_ok) ==
    LET call == [force |-> force_download, version |-> version, before |-> r.version_txt,
                 has_asset |-> has_asset, net_ok |-> net_ok]
        zip  == download_and_extract(r.version_txt, version, net_ok, write_ok)
    IN  IF ~force_download /\ installed_is(r.version_txt, version)
        THEN [r EXCEPT !.calls = Append(@, call @@ [downloads |-> 0, result |-> "True"])]
        ELSE IF ~has_asset
        THEN [r EXCEPT !.calls = Append(@, call @@ [downloads |-> 0, result |-> "raised"])]
        ELSE [version_txt |-> zip.file,
              calls |-> Append(r.calls,
                    call @@ [downloads |-> zip.downloads,
                             result |-> IF zip.result = "raised" THEN "False" ELSE zip.result])]

ReleaseCall ==
    /\ Len(release.calls) < MaxReleaseCalls
    /\ \E force_download \in BOOLEAN, version \in Tags, has_asset \in BOOLEAN, net_ok \in BOOLEAN,
          write_ok \in BOOLEAN :
          release' = download_github_release_latest(release, force_download, version, has_asset, net_ok, write_ok)
    /\ UNCHANGED << copyCall, clearCall, depot, runMain, locateCall >>
    /\ MainUnchanged

NextRelease == ReleaseCall

SpecRelease == InitRelease /\ [][NextRelease]_vars

\* C27: a call with force = True for a release that has a matching ZIP asset downloads it, also when
\* version.txt already holds the tag of the release; a call with force = False when version.txt holds the
\* tag downloads nothing and returns True
C27_ForceDownloadsAnInstalledVersion ==
    \A i \in 1..Len(release.calls) :
        LET r == release.calls[i]
        IN  /\ (r.force /\ r.has_asset) => r.downloads = 1
            /\ (~r.force /\ installed_is(r.before, r.version)) => (r.downloads = 0 /\ r.result = "True")

(***************************************************************************)
(* run.main (run.py:252-357): the four stages, one step for each.  What a  *)
(* stage does is an input of its step: `ok` tells whether the work of the  *)
(* stage succeeded.                                                        *)
(***************************************************************************)
InitRun ==
    /\ MainIdle
    /\ CopyAtRest
    /\ ClearAtRest
    /\ DepotAtRest
    /\ ReleaseAtRest
    /\ LocateAtRest
    /\ \E skips \in [StageNames -> BOOLEAN], exists \in BOOLEAN :
          runMain = [runPc |-> "call", skip |-> skips, mapperExists |-> exists,
                     stagesRun |-> << >>, returned |-> "none"]

\* the stage has run and ended with `ok`
Ran(m, stage, ok) == [m EXCEPT !.stagesRun = Append(@, [stage |-> stage, ok |-> ok])]

\* a stage is over: main goes on to `next` when the stage function returned a true value, else returns False
After(m, value, next) ==
    IF value THEN [m EXCEPT !.runPc = next] ELSE [m EXCEPT !.runPc = "returned", !.returned = "False"]

RunUnchanged ==
    /\ UNCHANGED << copyCall, clearCall, depot, release, locateCall >>
    /\ MainUnchanged

\* lines 283-298: init_params and validate_environment
Validate ==
    /\ runMain.runPc = "call"
    /\ \E valid \in BOOLEAN :
          runMain' = IF valid THEN [runMain EXCEPT !.runPc = "dependencies"]
                     ELSE [runMain EXCEPT !.runPc = "rejected", !.returned = "False"]
    /\ RunUnchanged

\* dependency_manager.main (dependency_manager.py:470-494): False when an installation raised, else True
dependency_main(installed) == installed

\* run.py:29-66: the result of dependency_main is assigned and not looked at; dependency_main raises nothing
run_dependency_manager(installed) == TRUE

\* lines 300-306
StageDependencies ==
    /\ runMain.runPc = "dependencies"
    /\ IF runMain.skip["dependencies"]
       THEN runMain' = [runMain EXCEPT !.runPc = "steam"]
       ELSE \E installed \in BOOLEAN :
               runMain' = After(Ran(runMain, "dependencies", dependency_main(installed)),
                                run_dependency_manager(installed), "steam")
    /\ RunUnchanged

\* lines 308-314, run_steam_download_update (69-116): False when the downloader raised
StageSteam ==
    /\ runMain.runPc = "steam"
    /\ IF runMain.skip["steam"]
       THEN runMain' = [runMain EXCEPT !.runPc = "mapper"]
       ELSE \E ok \in BOOLEAN : runMain' = After(Ran(runMain, "steam", ok), ok, "mapper")
    /\ RunUnchanged

\* lines 316-324, run_mapper_creation (119-166): the path when get_mapper.main returned it and the file
\* exists, None otherwise; `ok` tells whether get_mapper.main returned, which it does after it wrote the file
StageMapper ==
    /\ runMain.runPc = "mapper"
    /\ IF runMain.skip["mapper"]
       THEN runMain' = [runMain EXCEPT !.runPc = "export"]
       ELSE \E ok \in BOOLEAN :
               runMain' = After([Ran(runMain, "mapper", ok) EXCEPT !.mapperExists = @ \/ ok], ok, "export")
    /\ RunUnchanged

\* lines 326-349, run_batch_export (169-225): without a file at params.output_mapper_file the stage is
\* not started; main returns True after the last stage
StageExport ==
    /\ runMain.runPc = "export"
    /\ IF runMain.skip["export"]
       THEN runMain' = [runMain EXCEPT !.runPc = "returned", !.returned = "True"]
       ELSE IF ~runMain.mapperExists
       THEN runMain' = [runMain EXCEPT !.runPc = "returned", !.returned = "False"]
       ELSE \E ok \in BOOLEAN :
               runMain' = [Ran(runMain, "export", ok) EXCEPT !.runPc = "returned",
                                                             !.returned = IF ok THEN "True" ELSE "False"]
    /\ RunUnchanged

NextRun == Validate \/ StageDependencies \/ StageSteam \/ StageMapper \/ StageExport

SpecRun == InitRun /\ [][NextRun]_vars

StageIndex(stage) == CHOOSE i \in 1..Len(Stages) : Stages[i] = stage

Succeeded(stage) ==
    \E i \in 1..Len(runMain.stagesRun) : runMain.stagesRun[i] = [stage |-> stage, ok |-> TRUE]

\* C28: the stages run in the order dependency manager, steam download, mapper creation, batch export; no
\* stage runs after an earlier stage that was run has failed; and, the environment being valid, main
\* returns True exactly when every stage that is not skipped has succeeded, False otherwise
C28_StagesInOrderUntilFailure ==
    /\ \A i, j \in 1..Len(runMain.stagesRun) :
          i < j => /\ StageIndex(runMain.stagesRun[i].stage) < StageIndex(runMain.stagesRun[j].stage)
                   /\ runMain.stagesRun[i].ok
    /\ \A i \in 1..Len(runMain.stagesRun) : ~runMain.skip[runMain.stagesRun[i].stage]
    /\ runMain.runPc = "returned"
          => /\ runMain.returned \in {"True", "False"}
             /\ runMain.returned = "True"
                   <=> \A stage \in StageNames : ~runMain.skip[stage] => Succeeded(stage)

(***************************************************************************)
(* get_mapper_from_sdk (get_mapper.py:88-131), called on its own on a      *)
(* directory from which another process removes entries between the        *)
(* listings (lines 102-124) and the check of line 126.                     *)
(***************************************************************************)
InitRace ==
    /\ MainIdle
    /\ CopyAtRest
    /\ ClearAtRest
    /\ DepotAtRest
    /\ ReleaseAtRest
    /\ RunAtRest
    /\ \E d \in LocateDirs :
          locateCall = [dir |-> d, seen |-> d, at |-> "list", found |-> NoLoc, res |-> NoLoc]

RaceUnchanged ==
    /\ UNCHANGED << copyCall, clearCall, depot, release, runMain >>
    /\ MainUnchanged

\* the directory without the file f of the Mappings directory of bundle b
WithoutFile(d, b, f) ==
    { IF e.isDir /\ e.name = b THEN [e EXCEPT !.mfiles = { m \in @ : m.fname # f }] ELSE e : e \in d }

\* the directory without the bundle directory b
WithoutBundle(d, b) == { e \in d : ~(e.isDir /\ e.name = b) }

\* lines 102-124: the two listings and the path composed of the one file
\* listed; every error of these lines is raised here
ListMapperFiles ==
    /\ locateCall.at = "list"
    /\ LET r == get_mapper_from_sdk(locateCall.dir)
       IN  locateCall' = IF r.kind = "path"
                         THEN [locateCall EXCEPT !.at = "check", !.found = r]
                         ELSE [locateCall EXCEPT !.at = "raised", !.res = r]
    /\ RaceUnchanged

\* another process removes the listed file, or the whole bundle directory,
\* after the listing and before the check
EntryRemoved ==
    /\ locateCall.at = "check"
    /\ \E d \in { WithoutFile(locateCall.dir, locateCall.found.bundle, locateCall.found.file),
                  WithoutBundle(locateCall.dir, locateCall.found.bundle) } :
          /\ d # locateCall.dir
          /\ locateCall' = [locateCall EXCEPT !.dir = d]
    /\ RaceUnchanged

\* mutant: the composed path is returned without the check of line 126
CheckMapperFileSkipped ==
    /\ locateCall.at = "check"
    /\ locateCall' = [locateCall EXCEPT !.at = "returned", !.res = locateCall.found]
    /\ RaceUnchanged

\* lines 126-131: os.path.exists of the composed path, then the return
CheckMapperFile ==
    /\ locateCall.at = "check"
    /\ locateCall' = IF PathExists(locateCall.dir, locateCall.found.bundle, locateCall.found.file)
                     THEN [locateCall EXCEPT !.at = "returned", !.res = locateCall.found]
                     ELSE [locateCall EXCEPT !.at = "raised", !.res = LocError("MapperFileNotFound", 1)]
    /\ RaceUnchanged

NextRace ==
    \/ ListMapperFiles
    \/ EntryRemoved
    \/ CheckMapperFile

SpecRace == InitRace /\ [][NextRace]_vars

\* C35: when the one file that the listing found is gone at the check of
\* line 126, get_mapper_from_sdk raises 'Mapper file not found' and returns
\* no path; a path it returns is the path of a file that exists at the
\* check, and 'Mapper file not found' is raised only for a listed file that
\* has gone.
C35_VanishedFileIsNotFound ==
    /\ (locateCall.at \in {"returned", "raised"} /\ locateCall.found.kind = "path"
          /\ ~PathExists(locateCall.dir, locateCall.found.bundle, locateCall.found.file))
        => (locateCall.at = "raised" /\ locateCall.res = LocError("MapperFileNotFound", 1))
    /\ locateCall.at = "returned"
        => /\ locateCall.res = locateCall.found /\ locateCall.res.kind = "path"
           /\ PathExists(locateCall.dir, locateCall.res.bundle, locateCall.res.file)
    /\ locateCall.res.kind = "MapperFileNotFound"
        => /\ locateCall.at = "raised" /\ locateCall.found.kind = "path"
           /\ PathExists(locateCall.seen, locateCall.found.bundle, locateCall.found.file)
           /\ locateCall.dir # locateCall.seen

C35_Witness ==
    /\ locateCall.at = "raised" /\ locateCall.res = LocError("MapperFileNotFound", 1)
    /\ locateCall.dir = WithoutFile(locateCall.seen, locateCall.found.bundle, locateCall.found.file)
    /\ \E e \in locateCall.dir : e.isDir /\ e.name = locateCall.found.bundle /\ e.hasMappings

=============================================================================
